---- MODULE Spec2Model ----
(***************************************************************************)
(* Decision core of hido: ByzantineVoting (src/src/consensus/voting.rs),   *)
(* EthicalGuardrail (src/src/consensus/guardrails.rs) and DecisionEngine   *)
(* (src/src/consensus/engine.rs).                                          *)
(*                                                                         *)
(* Numbers.  The code computes in f32.  The model computes in exact        *)
(* rationals [n, d] extended with the two IEEE-754 values the code can     *)
(* produce by dividing by zero: NaN (0/0) and +infinity (x/0, x > 0).      *)
(* Voter weights are multiples of 1/4, which f32 represents and adds       *)
(* exactly; every quotient the model compares has a small denominator, so  *)
(* rounding a quotient to f32 never changes the outcome of a comparison.   *)
(***************************************************************************)
EXTENDS Integers, Sequences, FiniteSets, TLC

VARIABLES
    voters,         \* ByzantineVoting.voters: voter id -> VoterInfo
    votes,          \* ByzantineVoting.votes: voter id -> vote type
    round,          \* ByzantineVoting.round
    proposal,       \* ByzantineVoting.proposal
    config,         \* ByzantineVoting.config
    rules,          \* EthicalGuardrail.rules
    violation_log,  \* EthicalGuardrail.violation_log
    stats,          \* EthicalGuardrail.stats
    checked,        \* Some (context, EthicalEvaluation) if the last call was evaluate,
                    \* made on the EthicalGuardrail directly
    metrics,        \* DecisionEngine.metrics
    engine,         \* DecisionEngine.config, and whether a recommender is set (gnn)
    last,           \* the last call made on the ByzantineVoting directly, and its Result
    outcome         \* Some (Decision, DecisionExplanation) if the last call was make_decision

voting_vars == <<voters, votes, round, proposal, config>>

guardrail_vars == <<rules, violation_log, stats, checked>>

engine_vars == <<metrics, engine>>

vars == <<voters, votes, round, proposal, config, rules, violation_log, stats, checked,
          metrics, engine, last, outcome>>

(***************************************************************************)
(* Bounds and input domains                                                *)
(***************************************************************************)
\* 1.0f32 in the model's fixed-point unit (weights are counted in quarters)
ONE == 4

\* the round counter is a u32; rounds above MaxRound are not explored
MaxRound == 2

\* make_decision is called at most MaxDecisions times on one engine
MaxDecisions == 1

VoterIds == {"v1", "v2", "v3"}

Proposals == {"p1", "p2"}

\* weights passed to register_voter, in quarters: -0.5, 0.25, 1.5 where tally
\* reads the weights (weighted mode), 0.25 where it never does
WeightInputs(cfg) == IF cfg.weighted THEN {0 - 2, 1, ONE + 2} ELSE {1}

VoteTypes == {"Approve", "Reject", "Abstain"}

None == "None"

\* an Option of a record: the empty sequence, or the sequence of the one value
Nothing == <<>>

Some(x) == <<x>>

(***************************************************************************)
(* f32 values                                                              *)
(***************************************************************************)
RECURSIVE GCD(_, _)
GCD(a, b) == IF b = 0 THEN a ELSE GCD(b, a % b)

Abs(x) == IF x < 0 THEN 0 - x ELSE x

NaN == [n |-> 0, d |-> 0]

PosInf == [n |-> 1, d |-> 0]

\* the value n/d, d >= 0, in lowest terms; x/0 is +infinity or NaN as in IEEE-754
Num(n, d) ==
    IF d = 0 THEN (IF n = 0 THEN NaN ELSE PosInf)
    ELSE LET g == GCD(Abs(n), d) IN [n |-> n \div g, d |-> d \div g]

IsNaN(x) == x.n = 0 /\ x.d = 0

IsFinite(x) == x.d > 0

\* IEEE comparisons: every comparison with NaN is false
FLt(x, y) == ~IsNaN(x) /\ ~IsNaN(y) /\ x.n * y.d < y.n * x.d

FGt(x, y) == FLt(y, x)

FGe(x, y) == ~IsNaN(x) /\ ~IsNaN(y) /\ x.n * y.d >= y.n * x.d

\* sum, difference and product of finite values; NaN propagates
FAdd(x, y) == IF IsFinite(x) /\ IsFinite(y) THEN Num(x.n * y.d + y.n * x.d, x.d * y.d) ELSE NaN

FSub(x, y) == IF IsFinite(x) /\ IsFinite(y) THEN Num(x.n * y.d - y.n * x.d, x.d * y.d) ELSE NaN

FMul(x, y) == IF IsFinite(x) /\ IsFinite(y) THEN Num(x.n * y.n, x.d * y.d) ELSE NaN

\* division of a finite value by a positive integer
FDivInt(x, k) == IF IsFinite(x) THEN Num(x.n, x.d * k) ELSE NaN

(***************************************************************************)
(* Maps (HashMap<String, _>)                                               *)
(***************************************************************************)
EmptyMap == [k \in {} |-> 0]

MapInsert(m, k, v) == [x \in (DOMAIN m) \cup {k} |-> IF x = k THEN v ELSE m[x]]

MapRemove(m, k) == [x \in (DOMAIN m) \ {k} |-> m[x]]

RECURSIVE SumOver(_, _)
\* sum of f[k] for k in S
SumOver(S, f) ==
    IF S = {} THEN 0
    ELSE LET k == CHOOSE x \in S : TRUE IN f[k] + SumOver(S \ {k}, f)

(***************************************************************************)
(* ByzantineVoting                                                         *)
(***************************************************************************)
\* VotingConfig::default(): quorum 2/3, unweighted
DefaultVotingConfig == [quorum_threshold |-> Num(2, 3), weighted |-> FALSE]

\* the configurations of the tests: the default, and weighted with quorum 1/2
VotingConfigs == {DefaultVotingConfig, [quorum_threshold |-> Num(1, 2), weighted |-> TRUE]}

weight_as_given(w) == w

\* f32::clamp(0.0, 1.0)
clamp01(w) == IF w < 0 THEN 0 ELSE IF w > ONE THEN ONE ELSE w

VoterInfo(id, weight) ==
    [id |-> id, weight |-> clamp01(weight), reputation |-> ONE, is_byzantine |-> FALSE]

\* Error::Internal(message): both cast_vote errors are this one variant
Internal(msg) == [variant |-> "Internal", message |-> msg]

Ok == [variant |-> "Ok", message |-> ""]

ErrVoterNotRegistered == Internal("Voter not registered")

ErrNoActiveProposal == Internal("No active proposal")

registered_weight_in_every_mode(vs, cfg, voter_id) ==
    IF voter_id \in DOMAIN vs THEN vs[voter_id].weight ELSE ONE

\* the weight tally gives to the ballot stored under voter_id
ballot_weight(vs, cfg, voter_id) ==
    IF cfg.weighted
    THEN (IF voter_id \in DOMAIN vs THEN vs[voter_id].weight ELSE ONE)
    ELSE ONE

approve_weight(vs, bs, cfg) ==
    SumOver({v \in DOMAIN bs : bs[v] = "Approve"},
            [v \in DOMAIN bs |-> ballot_weight(vs, cfg, v)])

reject_weight(vs, bs, cfg) ==
    SumOver({v \in DOMAIN bs : bs[v] = "Reject"},
            [v \in DOMAIN bs |-> ballot_weight(vs, cfg, v)])

total_weight(vs, cfg) ==
    IF cfg.weighted
    THEN SumOver(DOMAIN vs, [v \in DOMAIN vs |-> vs[v].weight])
    ELSE Cardinality(DOMAIN vs) * ONE

participation(vs, bs, cfg) ==
    Num(approve_weight(vs, bs, cfg) + reject_weight(vs, bs, cfg), total_weight(vs, cfg))

\* tally, lines 241-253: (consensus_reached, decision, confidence)
tie_is_approve(aw, rw, part, q) ==
    IF FGe(part, q)
    THEN IF aw >= rw THEN <<TRUE, "Approve", Num(aw, aw + rw)>>
         ELSE <<TRUE, "Reject", Num(rw, aw + rw)>>
    ELSE <<FALSE, None, part>>

quorum_ignored(aw, rw, part, q) ==
    IF aw > rw THEN <<TRUE, "Approve", Num(aw, aw + rw)>>
    ELSE IF rw > aw THEN <<TRUE, "Reject", Num(rw, aw + rw)>>
    ELSE <<FALSE, None, Num(1, 2)>>

tally_outcome(aw, rw, part, q) ==
    IF FGe(part, q)
    THEN IF aw > rw THEN <<TRUE, "Approve", Num(aw, aw + rw)>>
         ELSE IF rw > aw THEN <<TRUE, "Reject", Num(rw, aw + rw)>>
         ELSE <<FALSE, None, Num(1, 2)>>
    ELSE <<FALSE, None, part>>

\* tally, lines 203-265: the result computed from the ballots
tally_counted(vs, bs, cfg, rnd) ==
    LET triple == tally_outcome(approve_weight(vs, bs, cfg), reject_weight(vs, bs, cfg),
                                 participation(vs, bs, cfg), cfg.quorum_threshold)
    IN  [consensus_reached |-> triple[1], decision |-> triple[2],
         approve_votes |-> Cardinality({v \in DOMAIN bs : bs[v] = "Approve"}),
         reject_votes |-> Cardinality({v \in DOMAIN bs : bs[v] = "Reject"}),
         abstain_votes |-> Cardinality({v \in DOMAIN bs : bs[v] = "Abstain"}),
         total_voters |-> Cardinality(DOMAIN vs), confidence |-> triple[3], round |-> rnd]

\* tally, lines 190-201: the result returned when no voter is registered
tally_neutral(rnd) ==
    [consensus_reached |-> FALSE, decision |-> None,
     approve_votes |-> 0, reject_votes |-> 0, abstain_votes |-> 0,
     total_voters |-> 0, confidence |-> Num(0, 1), round |-> rnd]

tally_without_early_return(vs, bs, cfg, rnd) == tally_counted(vs, bs, cfg, rnd)

\* ByzantineVoting::tally on the state (vs, bs, cfg, rnd)
tally_of(vs, bs, cfg, rnd) ==
    IF Cardinality(DOMAIN vs) = 0 THEN tally_neutral(rnd) ELSE tally_counted(vs, bs, cfg, rnd)

tally == tally_of(voters, votes, config, round)

vote_count == Cardinality(DOMAIN votes)

voter_count == Cardinality(DOMAIN voters)

(***************************************************************************)
(* usize arithmetic.  A usize has UsizeBits bits, more than a TLC integer  *)
(* holds, so a usize is a little-endian sequence of 16-bit limbs.          *)
(* Subtraction that overflows panics in a build with overflow checks (the  *)
(* default debug profile) and wraps modulo 2^UsizeBits otherwise (the      *)
(* default release profile).                                               *)
(***************************************************************************)
UsizeBits == 64

LimbBase == 2 ^ 16

NumLimbs == UsizeBits \div 16

\* the usize of a natural number below 2^31
ToUsize(n) ==
    [i \in 1..NumLimbs |-> IF i = 1 THEN n % LimbBase ELSE IF i = 2 THEN n \div LimbBase ELSE 0]

RECURSIVE ULtFrom(_, _, _)
\* a < b, comparing from limb i downwards
ULtFrom(a, b, i) ==
    IF i = 0 THEN FALSE
    ELSE IF a[i] # b[i] THEN a[i] < b[i]
    ELSE ULtFrom(a, b, i - 1)

ULt(a, b) == ULtFrom(a, b, NumLimbs)

RECURSIVE USubFrom(_, _, _, _)
\* limbs i.. of a - b - borrow, modulo 2^UsizeBits
USubFrom(a, b, i, borrow) ==
    IF i > NumLimbs THEN <<>>
    ELSE LET d == a[i] - b[i] - borrow
         IN  <<IF d < 0 THEN d + LimbBase ELSE d>>
                 \o USubFrom(a, b, i + 1, IF d < 0 THEN 1 ELSE 0)

\* usize::wrapping_sub
UWrappingSub(a, b) == USubFrom(a, b, 1, 0)

RECURSIVE UDivFrom(_, _, _, _)
\* limbs 1..i of the quotient of (rem, a[i], ..., a[1]) by k, for a small k
UDivFrom(a, k, i, rem) ==
    IF i = 0 THEN <<>>
    ELSE LET cur == rem * LimbBase + a[i]
         IN  UDivFrom(a, k, i - 1, cur % k) \o <<cur \div k>>

UDiv(a, k) == UDivFrom(a, k, NumLimbs, 0)

\* ByzantineVoting::byzantine_tolerance for n registered voters: the set of
\* outcomes over the build profiles
byzantine_tolerance_outcomes(n) ==
    LET nl == ToUsize(n)
        one == ToUsize(1)
        max_faulty == UDiv(UWrappingSub(nl, one), 3)
        honest_required == UWrappingSub(nl, max_faulty)
        overflows == ULt(nl, one) \/ ULt(nl, max_faulty)
        returned == [panicked |-> FALSE, total_voters |-> nl,
                     max_faulty_tolerated |-> max_faulty,
                     honest_required |-> honest_required, is_secure |-> n >= 4]
        panic == [panicked |-> TRUE, total_voters |-> nl,
                  max_faulty_tolerated |-> ToUsize(0),
                  honest_required |-> ToUsize(0), is_secure |-> FALSE]
    IN  IF overflows THEN {panic, returned} ELSE {returned}

byzantine_tolerance == byzantine_tolerance_outcomes(voter_count)

\* the record of the call that produced the current state: the operation, the
\* voter of a cast_vote, the ballot it stored (None if it stored none), whether
\* that ballot replaced an earlier one (what HashMap::insert returns), the Result
\* GuardrailStats::default()
NewStats == [total_evaluations |-> 0, violations_detected |-> 0, violations_by_type |-> EmptyMap]

\* DecisionMetrics::default()
NewMetrics ==
    [total_decisions |-> 0, approved_decisions |-> 0, rejected_decisions |-> 0,
     escalated_decisions |-> 0, average_confidence |-> Num(0, 1)]

Call(op, voter, stored, replaced, result) ==
    [op |-> op, voter |-> voter, stored |-> stored, replaced |-> replaced, result |-> result]

\* ByzantineVoting::new(config)
Init ==
    /\ voters = EmptyMap
    /\ votes = EmptyMap
    /\ round = 1
    /\ proposal = None
    /\ config \in VotingConfigs
    /\ last = Call("new", None, None, FALSE, Ok)
    /\ rules = <<>>
    /\ violation_log = <<>>
    /\ stats = NewStats
    /\ checked = Nothing
    /\ metrics = NewMetrics
    /\ engine = None
    /\ outcome = Nothing

register_voter(voter, weight) ==
    /\ voters' = MapInsert(voters, voter, VoterInfo(voter, weight))
    /\ last' = Call("register_voter", None, None, FALSE, Ok)
    /\ UNCHANGED <<votes, round, proposal, config>>
    /\ UNCHANGED <<guardrail_vars, engine_vars, outcome>>

unregister_voter(voter_id) ==
    /\ voters' = MapRemove(voters, voter_id)
    /\ last' = Call("unregister_voter", None, None, FALSE, Ok)
    /\ UNCHANGED <<votes, round, proposal, config>>
    /\ UNCHANGED <<guardrail_vars, engine_vars, outcome>>

start_vote_keeps_round(p) ==
    /\ votes' = EmptyMap
    /\ proposal' = p
    /\ round' = round
    /\ last' = Call("start_vote", None, None, FALSE, Ok)
    /\ UNCHANGED <<voters, config>>
    /\ UNCHANGED <<guardrail_vars, engine_vars, outcome>>

\* ByzantineVoting::start_vote
start_vote(p) ==
    /\ votes' = EmptyMap
    /\ proposal' = p
    /\ round' = 1
    /\ last' = Call("start_vote", None, None, FALSE, Ok)
    /\ UNCHANGED <<voters, config>>
    /\ UNCHANGED <<guardrail_vars, engine_vars, outcome>>

proposal_checked_first(vs, prop, voter) ==
    IF prop = None THEN ErrNoActiveProposal
    ELSE IF voter \notin DOMAIN vs THEN ErrVoterNotRegistered
    ELSE Ok

\* the Result of cast_vote for a ballot of voter, lines 169-183
cast_vote_result(vs, prop, voter) ==
    IF voter \notin DOMAIN vs THEN ErrVoterNotRegistered
    ELSE IF prop = None THEN ErrNoActiveProposal
    ELSE Ok

insert_before_checks(bs, result, voter, vote_type) == MapInsert(bs, voter, vote_type)

first_ballot_kept(bs, result, voter, vote_type) ==
    IF result = Ok /\ voter \notin DOMAIN bs THEN MapInsert(bs, voter, vote_type) ELSE bs

\* the ballots after cast_vote, lines 169-182: the insert is reached only past both checks
cast_vote_store(bs, result, voter, vote_type) ==
    IF result = Ok THEN MapInsert(bs, voter, vote_type) ELSE bs

cast_vote(voter, vote_type) ==
    LET result == cast_vote_result(voters, proposal, voter)
    IN  /\ votes' = cast_vote_store(votes, result, voter, vote_type)
        /\ last' = Call("cast_vote", voter,
                        IF result = Ok THEN vote_type ELSE None,
                        result = Ok /\ voter \in DOMAIN votes, result)
        /\ UNCHANGED <<voters, round, proposal, config>>
        /\ UNCHANGED <<guardrail_vars, engine_vars, outcome>>

next_round_keeps_ballots ==
    /\ round < MaxRound
    /\ round' = round + 1
    /\ votes' = votes
    /\ last' = Call("next_round", None, None, FALSE, Ok)
    /\ UNCHANGED <<voters, proposal, config>>
    /\ UNCHANGED <<guardrail_vars, engine_vars, outcome>>

next_round_ends_proposal ==
    /\ round < MaxRound
    /\ round' = round + 1
    /\ votes' = EmptyMap
    /\ proposal' = None
    /\ last' = Call("next_round", None, None, FALSE, Ok)
    /\ UNCHANGED <<voters, config>>
    /\ UNCHANGED <<guardrail_vars, engine_vars, outcome>>

\* ByzantineVoting::next_round, for rounds up to MaxRound
next_round ==
    /\ round < MaxRound
    /\ round' = round + 1
    /\ votes' = EmptyMap
    /\ last' = Call("next_round", None, None, FALSE, Ok)
    /\ UNCHANGED <<voters, proposal, config>>
    /\ UNCHANGED <<guardrail_vars, engine_vars, outcome>>

Next ==
    \/ \E v \in VoterIds, w \in WeightInputs(config) : register_voter(v, w)
    \/ \E v \in VoterIds : unregister_voter(v)
    \/ \E p \in Proposals : start_vote(p)
    \/ \E v \in VoterIds, t \in VoteTypes : cast_vote(v, t)
    \/ next_round

Spec == Init /\ [][Next]_vars

(***************************************************************************)
(* ByzantineVoting with tally as a call of its own, for two voters         *)
(***************************************************************************)
tally_drains_ballots ==
    /\ last' = Call("tally", None, None, FALSE, tally)
    /\ votes' = EmptyMap
    /\ UNCHANGED <<voters, round, proposal, config>>
    /\ UNCHANGED <<guardrail_vars, engine_vars, outcome>>

\* ByzantineVoting::tally(&self), its ConsensusResult kept as the Result of the call
tally_call ==
    /\ last' = Call("tally", None, None, FALSE, tally)
    /\ UNCHANGED <<voters, votes, round, proposal, config>>
    /\ UNCHANGED <<guardrail_vars, engine_vars, outcome>>

TallyVoters == {"v1", "v2"}

NextTally ==
    \/ \E v \in TallyVoters, w \in WeightInputs(config) : register_voter(v, w)
    \/ \E v \in TallyVoters : unregister_voter(v)
    \/ \E p \in Proposals : start_vote(p)
    \/ \E v \in TallyVoters, t \in VoteTypes : cast_vote(v, t)
    \/ next_round
    \/ tally_call

SpecTally == Init /\ [][NextTally]_vars

(***************************************************************************)
(* EthicalGuardrail                                                        *)
(***************************************************************************)
\* serde_json::Value: a number held as an f64 ("number") or as an integer
\* ("integer"), a bool, a string (a sequence of characters) or null.  Values
\* are equal when they are of the same kind and hold the same value: the
\* integer 1 and the float 1.0 are different Values.
JNumber(x) == [t |-> "number", v |-> x]

JInt(n) == [t |-> "integer", v |-> Num(n, 1)]

\* Value::as_f64 is Some: the Value is a number of either kind
is_numeric(value) == value.t \in {"number", "integer"}

JBool(b) == [t |-> "bool", v |-> b]

JString(str) == [t |-> "string", v |-> str]

JNull == [t |-> "null", v |-> 0]

\* json!(x) of an f32: serde_json turns a value that is not finite into null
json_f32(x) == IF IsFinite(x) THEN JNumber(x) ELSE JNull

\* b occurs in a as a contiguous subsequence (str::contains)
str_contains(a, b) ==
    \E i \in 0..(Len(a) - Len(b)) : \A j \in 1..Len(b) : a[i + j] = b[j]

\* PartialEq of serde_json::Value
value_eq(a, b) == a.t = b.t /\ a.v = b.v

Condition(field, operator, value) == [field |-> field, operator |-> operator, value |-> value]

\* Condition::evaluate
Condition_evaluate(c, context) ==
    IF c.field \notin DOMAIN context THEN FALSE
    ELSE LET actual == context[c.field]
         IN  CASE c.operator = "eq" -> value_eq(actual, c.value)
               [] c.operator = "ne" -> ~value_eq(actual, c.value)
               [] c.operator = "gt" ->
                    is_numeric(actual) /\ is_numeric(c.value) /\ FGt(actual.v, c.value.v)
               [] c.operator = "lt" ->
                    is_numeric(actual) /\ is_numeric(c.value) /\ FLt(actual.v, c.value.v)
               [] c.operator = "contains" ->
                    actual.t = "string" /\ c.value.t = "string"
                        /\ str_contains(actual.v, c.value.v)
               [] OTHER -> FALSE

severity_as_given(severity) == severity

\* u8::clamp(1, 10)
clamp_severity(severity) == IF severity < 1 THEN 1 ELSE IF severity > 10 THEN 10 ELSE severity

\* GuardrailRule::new(..).with_condition(..)*.with_severity(severity)
GuardrailRule(rule_id, rule_type, action, conditions, severity) ==
    [rule_id |-> rule_id, rule_type |-> rule_type, conditions |-> conditions,
     action |-> action, severity |-> clamp_severity(severity)]

any_condition_violates(rule, context) ==
    \E i \in 1..Len(rule.conditions) : Condition_evaluate(rule.conditions[i], context)

\* GuardrailRule::is_violated
is_violated(rule, context) ==
    /\ Len(rule.conditions) > 0
    /\ \A i \in 1..Len(rule.conditions) : Condition_evaluate(rule.conditions[i], context)

defaults_with_privacy_below_transparency ==
    << GuardrailRule("transparency-1", "Transparency", "RequireApproval",
                     << Condition("impact", "gt", JNumber(Num(8, 10))),
                        Condition("has_explanation", "eq", JBool(FALSE)) >>, 7),
       GuardrailRule("safety-1", "Safety", "Reject",
                     << Condition("risk_score", "gt", JNumber(Num(9, 10))) >>, 10),
       GuardrailRule("privacy-1", "Privacy", "Reject",
                     << Condition("contains_pii", "eq", JBool(TRUE)) >>, 6) >>

\* EthicalGuardrail::with_defaults: transparency-1, safety-1, privacy-1
DefaultRules ==
    << GuardrailRule("transparency-1", "Transparency", "RequireApproval",
                     << Condition("impact", "gt", JNumber(Num(8, 10))),
                        Condition("has_explanation", "eq", JBool(FALSE)) >>, 7),
       GuardrailRule("safety-1", "Safety", "Reject",
                     << Condition("risk_score", "gt", JNumber(Num(9, 10))) >>, 10),
       GuardrailRule("privacy-1", "Privacy", "Reject",
                     << Condition("contains_pii", "eq", JBool(TRUE)) >>, 9) >>

ViolationRecord(rule, context) ==
    [rule_id |-> rule.rule_id, context |-> context, action_taken |-> rule.action]

\* the rules of rs that context violates, in rule order
RECURSIVE violated_rules(_, _)
violated_rules(rs, context) ==
    IF rs = <<>> THEN <<>>
    ELSE (IF is_violated(Head(rs), context) THEN <<Head(rs)>> ELSE <<>>)
             \o violated_rules(Tail(rs), context)

RECURSIVE last_maximum(_, _, _)
last_maximum(violations, max_severity, action) ==
    IF violations = <<>> THEN <<max_severity, action>>
    ELSE IF Head(violations).severity >= max_severity
         THEN last_maximum(Tail(violations), Head(violations).severity, Head(violations).action)
         ELSE last_maximum(Tail(violations), max_severity, action)

first_violation(violations, max_severity, action) ==
    IF violations = <<>> THEN <<max_severity, action>>
    ELSE <<Head(violations).severity, Head(violations).action>>

RECURSIVE highest_severity(_, _, _)
\* evaluate, lines 288-292: (max_severity, required_action) after the violated
\* rules, a rule replacing the action only with a strictly greater severity
highest_severity(violations, max_severity, action) ==
    IF violations = <<>> THEN <<max_severity, action>>
    ELSE IF Head(violations).severity > max_severity
         THEN highest_severity(Tail(violations), Head(violations).severity, Head(violations).action)
         ELSE highest_severity(Tail(violations), max_severity, action)

\* the EthicalEvaluation that evaluate returns
evaluation(rs, context) ==
    LET violations == violated_rules(rs, context)
        top == highest_severity(violations, 0, None)
    IN  [passes |-> violations = <<>>,
         violations |-> violations,
         \* a recommendation is a text naming the rule's type, id and description
         recommendations |-> [i \in 1..Len(violations) |-> violations[i].rule_id],
         risk_score |-> IF violations # <<>> THEN Num(top[1], 10) ELSE Num(0, 1),
         required_action |-> top[2]]

RECURSIVE count_by_type(_, _)
\* violations_by_type after one more violation of each of the rules
count_by_type(by_type, violations) ==
    IF violations = <<>> THEN by_type
    ELSE LET ty == Head(violations).rule_type
             n == IF ty \in DOMAIN by_type THEN by_type[ty] ELSE 0
         IN  count_by_type(MapInsert(by_type, ty, n + 1), Tail(violations))

log_first_only(log, rs, context) ==
    LET violations == violated_rules(rs, context)
    IN  IF violations = <<>> THEN log
        ELSE Append(log, ViolationRecord(violations[1], context))

\* the violation log after evaluate
log_after(log, rs, context) ==
    LET violations == violated_rules(rs, context)
    IN  log \o [i \in 1..Len(violations) |-> ViolationRecord(violations[i], context)]

\* the statistics after evaluate
stats_after(st, rs, context) ==
    LET violations == violated_rules(rs, context)
    IN  [total_evaluations |-> st.total_evaluations + 1,
         violations_detected |-> st.violations_detected + Len(violations),
         violations_by_type |-> count_by_type(st.violations_by_type, violations)]

(***************************************************************************)
(* DecisionEngine                                                          *)
(* The id and the timestamp of a Decision, and the reasoning text and the  *)
(* factors of its explanation, are outputs no operation reads; they are    *)
(* not modelled.  The recommender is outside the decision core: the        *)
(* recommendation of a call is an input of the model.                      *)
(***************************************************************************)
\* EngineConfig::default(), and whether with_gnn was called
DefaultEngine ==
    [gnn_weight |-> Num(3, 10), voting_weight |-> Num(7, 10), min_confidence |-> Num(1, 2),
     voting_config |-> DefaultVotingConfig, gnn |-> FALSE]

\* the engines explored: the default, the default with a recommender, and the
\* default with min_confidence = 0.9
Engines ==
    { DefaultEngine,
      [DefaultEngine EXCEPT !.gnn = TRUE],
      [DefaultEngine EXCEPT !.min_confidence = Num(9, 10)] }

AgentIds == {"v1", "v2"}

CandidateLists == {<<>>, <<"c1", "c2">>}

Intent(id, priority, action) == [id |-> id, priority |-> priority, action |-> action]

\* the intents passed to make_decision; action is a sequence of characters
Intents ==
    { Intent("p1", "Critical", <<"g", "o">>),
      Intent("p1", "Critical", <<>>),
      Intent("p2", "Normal", <<"g", "o">>) }

Vote(voter, vote_type) == [voter |-> voter, vote_type |-> vote_type]

\* the ballot lists passed to make_decision
BallotLists ==
    { <<>>,
      <<Vote("v1", "Approve")>>,
      <<Vote("v1", "Approve"), Vote("v2", "Approve")>>,
      <<Vote("v1", "Approve"), Vote("v2", "Reject")>>,
      <<Vote("v1", "Reject"), Vote("v2", "Reject")>>,
      <<Vote("v1", "Reject"), Vote("v2", "Abstain"), Vote("v1", "Approve")>>,
      <<Vote("v1", "Abstain"), Vote("v2", "Abstain")>> }

PredictedDecision(agent_id, confidence) == [agent_id |-> agent_id, confidence |-> confidence]

\* what gnn.predict(..).ok() can be: None without a recommender or when predict
\* fails; with a recommender, Some("unknown", 0.0) for no candidate, else Some
\* candidate with the largest softmax probability as its confidence
Recommendations(eng, candidates) ==
    IF ~eng.gnn THEN {Nothing}
    ELSE IF candidates = <<>> THEN {Nothing, Some(PredictedDecision("unknown", Num(0, 1)))}
    ELSE {Nothing, Some(PredictedDecision("c2", Num(17, 20))),
          Some(PredictedDecision("c1", Num(1, 2)))}

\* the rules passed to add_rule: the rule of test_decision_with_guardrail_rejection,
\* and a rule that allows every action of some impact
RulePool ==
    { GuardrailRule("test-reject", "Safety", "Reject",
                    << Condition("impact", "eq", JNumber(Num(1, 1))) >>, 10),
      GuardrailRule("allow-1", "Fairness", "Approve",
                    << Condition("impact", "gt", JNumber(Num(2, 10))) >>, 10) }

\* make_decision, lines 173-178
impact(priority) ==
    CASE priority = "Critical" -> Num(1, 1)
      [] priority = "High" -> Num(7, 10)
      [] priority = "Normal" -> Num(1, 2)
      [] priority = "Low" -> Num(3, 10)

risk_is_confidence(voting_result, intent) ==
    [f \in {"risk_score", "has_explanation", "contains_pii", "impact"} |->
        CASE f = "risk_score" -> json_f32(voting_result.confidence)
          [] f = "has_explanation" -> JBool(intent.action # <<>>)
          [] f = "contains_pii" -> JBool(FALSE)
          [] f = "impact" -> JNumber(impact(intent.priority))]

context_flags_pii(voting_result, intent) ==
    [f \in {"risk_score", "has_explanation", "contains_pii", "impact"} |->
        CASE f = "risk_score" -> json_f32(FSub(Num(1, 1), voting_result.confidence))
          [] f = "has_explanation" -> JBool(intent.action # <<>>)
          [] f = "contains_pii" -> JBool(intent.action # <<>>)
          [] f = "impact" -> JNumber(impact(intent.priority))]

\* make_decision, lines 161-179: the context for the guardrail check
build_context(voting_result, intent) ==
    [f \in {"risk_score", "has_explanation", "contains_pii", "impact"} |->
        CASE f = "risk_score" -> json_f32(FSub(Num(1, 1), voting_result.confidence))
          [] f = "has_explanation" -> JBool(intent.action # <<>>)
          [] f = "contains_pii" -> JBool(FALSE)
          [] f = "impact" -> JNumber(impact(intent.priority))]

RECURSIVE cast_until_error(_, _, _, _)
cast_until_error(vs, prop, bs, ballots) ==
    IF ballots = <<>> THEN bs
    ELSE IF cast_vote_result(vs, prop, Head(ballots).voter) # Ok THEN bs
    ELSE cast_until_error(vs, prop,
                          cast_vote_store(bs, Ok, Head(ballots).voter, Head(ballots).vote_type),
                          Tail(ballots))

RECURSIVE cast_all(_, _, _, _)
\* make_decision, lines 130-132: the ballots after casting every vote, errors ignored
cast_all(vs, prop, bs, ballots) ==
    IF ballots = <<>> THEN bs
    ELSE LET vote == Head(ballots)
         IN  cast_all(vs, prop,
                      cast_vote_store(bs, cast_vote_result(vs, prop, vote.voter),
                                      vote.voter, vote.vote_type),
                      Tail(ballots))

first_candidate(candidates) == IF candidates = <<>> THEN "" ELSE Head(candidates)

reject_needs_human(voting_result, gnn_rec, guardrails, candidates, eng) ==
    <<first_candidate(candidates), "Reject", guardrails.risk_score, TRUE>>

\* combine_signals, lines 229-234: the guardrails require rejection
combine_reject(voting_result, gnn_rec, guardrails, candidates, eng) ==
    <<first_candidate(candidates), "Reject", guardrails.risk_score, FALSE>>

escalation_by_confidence(voting_result, gnn_rec, guardrails, candidates, eng) ==
    <<IF gnn_rec # Nothing THEN gnn_rec[1].agent_id ELSE first_candidate(candidates),
      IF voting_result.decision = None THEN "Approve" ELSE voting_result.decision,
      voting_result.confidence,
      FLt(voting_result.confidence, eng.min_confidence)>>

escalate_defaults_to_reject(voting_result, gnn_rec, guardrails, candidates, eng) ==
    <<IF gnn_rec # Nothing THEN gnn_rec[1].agent_id ELSE first_candidate(candidates),
      IF voting_result.decision = None THEN "Reject" ELSE voting_result.decision,
      voting_result.confidence,
      TRUE>>

\* combine_signals, lines 235-244: the guardrails require approval or escalation
combine_escalate(voting_result, gnn_rec, guardrails, candidates, eng) ==
    <<IF gnn_rec # Nothing THEN gnn_rec[1].agent_id ELSE first_candidate(candidates),
      IF voting_result.decision = None THEN "Approve" ELSE voting_result.decision,
      voting_result.confidence,
      TRUE>>

\* combine_signals, lines 262-264
combined_confidence(voting_result, gnn_rec, eng) ==
    FAdd(FMul(eng.voting_weight, voting_result.confidence),
         FMul(eng.gnn_weight, IF gnn_rec # Nothing THEN gnn_rec[1].confidence ELSE Num(1, 2)))

recommendation_taken_at_threshold(voting_result, gnn_rec, guardrails, candidates, eng) ==
    <<IF gnn_rec # Nothing /\ FGe(gnn_rec[1].confidence, Num(8, 10))
      THEN gnn_rec[1].agent_id ELSE first_candidate(candidates),
      IF voting_result.decision = None THEN "Approve" ELSE voting_result.decision,
      combined_confidence(voting_result, gnn_rec, eng),
      FLt(combined_confidence(voting_result, gnn_rec, eng), eng.min_confidence)>>

escalates_above_threshold(voting_result, gnn_rec, guardrails, candidates, eng) ==
    <<IF gnn_rec # Nothing /\ FGt(gnn_rec[1].confidence, Num(8, 10))
      THEN gnn_rec[1].agent_id ELSE first_candidate(candidates),
      IF voting_result.decision = None THEN "Approve" ELSE voting_result.decision,
      combined_confidence(voting_result, gnn_rec, eng),
      FGt(combined_confidence(voting_result, gnn_rec, eng), eng.min_confidence)>>

escalates_at_threshold(voting_result, gnn_rec, guardrails, candidates, eng) ==
    <<IF gnn_rec # Nothing /\ FGt(gnn_rec[1].confidence, Num(8, 10))
      THEN gnn_rec[1].agent_id ELSE first_candidate(candidates),
      IF voting_result.decision = None THEN "Approve" ELSE voting_result.decision,
      combined_confidence(voting_result, gnn_rec, eng),
      ~FGt(combined_confidence(voting_result, gnn_rec, eng), eng.min_confidence)>>

no_consensus_abstains(voting_result, gnn_rec, guardrails, candidates, eng) ==
    <<IF gnn_rec # Nothing /\ FGt(gnn_rec[1].confidence, Num(8, 10))
      THEN gnn_rec[1].agent_id ELSE first_candidate(candidates),
      IF voting_result.decision = None THEN "Abstain" ELSE voting_result.decision,
      combined_confidence(voting_result, gnn_rec, eng),
      FLt(combined_confidence(voting_result, gnn_rec, eng), eng.min_confidence)>>

\* combine_signals, lines 249-268: no override by the guardrails
combine_weighted(voting_result, gnn_rec, guardrails, candidates, eng) ==
    <<IF gnn_rec # Nothing /\ FGt(gnn_rec[1].confidence, Num(8, 10))
      THEN gnn_rec[1].agent_id ELSE first_candidate(candidates),
      IF voting_result.decision = None THEN "Approve" ELSE voting_result.decision,
      combined_confidence(voting_result, gnn_rec, eng),
      FLt(combined_confidence(voting_result, gnn_rec, eng), eng.min_confidence)>>

\* DecisionEngine::combine_signals:
\* (selected_agent, decision_type, confidence, requires_human_approval)
combine_signals(voting_result, gnn_rec, guardrails, candidates, eng) ==
    IF guardrails.required_action = "Reject"
    THEN combine_reject(voting_result, gnn_rec, guardrails, candidates, eng)
    ELSE IF guardrails.required_action \in {"RequireApproval", "Escalate"}
    THEN combine_escalate(voting_result, gnn_rec, guardrails, candidates, eng)
    ELSE combine_weighted(voting_result, gnn_rec, guardrails, candidates, eng)

average_of_last_two(m, decision) ==
    LET total == m.total_decisions + 1
    IN  [total_decisions |-> total,
         approved_decisions |->
             m.approved_decisions + (IF decision.decision_type = "Approve" THEN 1 ELSE 0),
         rejected_decisions |->
             m.rejected_decisions + (IF decision.decision_type = "Reject" THEN 1 ELSE 0),
         escalated_decisions |->
             m.escalated_decisions + (IF decision.requires_human_approval THEN 1 ELSE 0),
         average_confidence |->
             FDivInt(FAdd(m.average_confidence, decision.confidence), 2)]

rejections_counted_as_escalations(m, decision) ==
    LET total == m.total_decisions + 1
    IN  [total_decisions |-> total,
         approved_decisions |->
             m.approved_decisions + (IF decision.decision_type = "Approve" THEN 1 ELSE 0),
         rejected_decisions |->
             m.rejected_decisions + (IF decision.decision_type = "Reject" THEN 1 ELSE 0),
         escalated_decisions |->
             m.escalated_decisions
                 + (IF decision.requires_human_approval \/ decision.decision_type = "Reject"
                    THEN 1 ELSE 0),
         average_confidence |->
             FDivInt(FAdd(FMul(m.average_confidence, Num(total - 1, 1)), decision.confidence),
                     total)]

\* DecisionEngine::update_metrics
update_metrics(m, decision) ==
    LET total == m.total_decisions + 1
    IN  [total_decisions |-> total,
         approved_decisions |->
             m.approved_decisions + (IF decision.decision_type = "Approve" THEN 1 ELSE 0),
         rejected_decisions |->
             m.rejected_decisions + (IF decision.decision_type = "Reject" THEN 1 ELSE 0),
         escalated_decisions |->
             m.escalated_decisions + (IF decision.requires_human_approval THEN 1 ELSE 0),
         average_confidence |->
             FDivInt(FAdd(FMul(m.average_confidence, Num(total - 1, 1)), decision.confidence),
                     total)]

\* DecisionEngine::new(config), with_gnn applied or not
InitEngine ==
    /\ engine \in Engines
    /\ voters = EmptyMap
    /\ votes = EmptyMap
    /\ round = 1
    /\ proposal = None
    /\ config = engine.voting_config
    /\ rules = DefaultRules
    /\ violation_log = <<>>
    /\ stats = NewStats
    /\ checked = Nothing
    /\ metrics = NewMetrics
    /\ last = Call("new", None, None, FALSE, Ok)
    /\ outcome = Nothing

\* DecisionEngine::register_agent
register_agent(agent, weight) ==
    /\ voters' = MapInsert(voters, agent, VoterInfo(agent, weight))
    /\ outcome' = Nothing
    /\ UNCHANGED <<votes, round, proposal, config, guardrail_vars, engine_vars, last>>

\* EthicalGuardrail::add_rule, on engine.guardrails; a rule of the pool is added
\* once
add_rule(rule) ==
    /\ \A i \in 1..Len(rules) : rules[i].rule_id # rule.rule_id
    /\ rules' = Append(rules, rule)
    /\ checked' = Nothing
    /\ outcome' = Nothing
    /\ UNCHANGED <<voting_vars, violation_log, stats, engine_vars, last>>

\* the Decision built from the tuple combine_signals returns
Decision(combined) ==
    [selected_agent |-> combined[1], decision_type |-> combined[2],
     confidence |-> combined[3], requires_human_approval |-> combined[4]]

ballots_carried_over(bs) == bs

\* make_decision, line 129: start_vote discards the ballots stored before the call
ballots_at_start(bs) == EmptyMap

\* DecisionEngine::make_decision(intent, candidates, votes); gnn_rec is what
\* gnn.predict(..).ok() gave in this call
make_decision_of(intent, candidates, ballots, gnn_rec) ==
    /\ proposal' = intent.id
    /\ round' = 1
    /\ \E cast \in {cast_all(voters, intent.id, ballots_at_start(votes), ballots)} :
          /\ votes' = cast
          /\ \E voting_result \in {tally_of(voters, cast, config, 1)} :
             \E context \in {build_context(voting_result, intent)} :
             \E guardrail_check \in {evaluation(rules, context)} :
             \E decision \in {Decision(combine_signals(voting_result, gnn_rec,
                                                      guardrail_check, candidates, engine))} :
                /\ violation_log' = log_after(violation_log, rules, context)
                /\ stats' = stats_after(stats, rules, context)
                /\ metrics' = update_metrics(metrics, decision)
                /\ outcome' = Some([decision |-> decision,
                                    gnn_recommendation |-> gnn_rec,
                                    voting_result |-> voting_result,
                                    guardrail_check |-> guardrail_check])
    /\ UNCHANGED <<voters, config, rules, checked, engine, last>>

\* make_decision on any of the inputs explored, at most MaxDecisions times
make_decision ==
    /\ metrics.total_decisions < MaxDecisions
    /\ \E intent \in Intents, candidates \in CandidateLists, ballots \in BallotLists :
       \E gnn_rec \in Recommendations(engine, candidates) :
          make_decision_of(intent, candidates, ballots, gnn_rec)

NextEngine ==
    \/ \E a \in AgentIds : register_agent(a, ONE)
    \/ \E r \in RulePool : add_rule(r)
    \/ make_decision

SpecEngine == InitEngine /\ [][NextEngine]_vars

(***************************************************************************)
(* EthicalGuardrail called directly: new() or with_defaults(), add_rule    *)
(* and evaluate on contexts of any shape.                                  *)
(***************************************************************************)
\* evaluate is called at most MaxEvaluations times
MaxEvaluations == 2

\* the context holding the fields of the pairs <<field, value>> of S
Context(S) == [f \in {pair[1] : pair \in S} |-> (CHOOSE pair \in S : pair[1] = f)[2]]

Text(chars) == JString(chars)

\* the contexts passed to evaluate: empty; complete and of high risk; complete
\* and of low risk; complete with every field of another type than the rules
\* compare it to; partial, with an integer for a float; with personal data,
\* high impact and no explanation; with an integer risk_score only
Contexts ==
    << Context({}),
       Context({ <<"risk_score", JNumber(Num(19, 20))>>, <<"has_explanation", JBool(FALSE)>>,
                 <<"contains_pii", JBool(FALSE)>>, <<"impact", JNumber(Num(1, 1))>>,
                 <<"status", Text(<<"o", "k">>)>>, <<"label", Text(<<"a", "b", "c">>)>> }),
       Context({ <<"risk_score", JNumber(Num(1, 10))>>, <<"has_explanation", JBool(TRUE)>>,
                 <<"contains_pii", JBool(FALSE)>>, <<"impact", JNumber(Num(3, 10))>>,
                 <<"status", Text(<<"n", "o">>)>>, <<"label", Text(<<"a", "b", "c">>)>> }),
       Context({ <<"risk_score", Text(<<"h", "i">>)>>, <<"has_explanation", JNull>>,
                 <<"contains_pii", Text(<<"n", "o">>)>>, <<"impact", JBool(TRUE)>>,
                 <<"status", JInt(5)>>, <<"label", JInt(7)>> }),
       Context({ <<"impact", JInt(1)>>, <<"has_explanation", JBool(FALSE)>> }),
       Context({ <<"risk_score", JNumber(Num(1, 10))>>, <<"has_explanation", JBool(FALSE)>>,
                 <<"contains_pii", JBool(TRUE)>>, <<"impact", JNumber(Num(1, 1))>> }),
       Context({ <<"risk_score", JInt(1)>> }) >>

\* the rules passed to add_rule on the guardrail: one without conditions, one
\* with ne, one with contains and lt, one with an operator that does not exist
GuardrailPool ==
    { GuardrailRule("empty-1", "Fairness", "Reject", <<>>, 10),
      GuardrailRule("status-1", "Legality", "Escalate",
                    << Condition("status", "ne", Text(<<"o", "k">>)) >>, 10),
      GuardrailRule("label-1", "Privacy", "Approve",
                    << Condition("label", "contains", Text(<<"b">>)),
                       Condition("impact", "lt", JNumber(Num(1, 2))) >>, 12),
      GuardrailRule("odd-1", "Safety", "Reject",
                    << Condition("impact", "ge", JNumber(Num(1, 2))) >>, 0) }

\* EthicalGuardrail::new() or EthicalGuardrail::with_defaults()
InitGuardrail ==
    /\ rules \in {<<>>, DefaultRules}
    /\ violation_log = <<>>
    /\ stats = NewStats
    /\ checked = Nothing
    /\ voters = EmptyMap
    /\ votes = EmptyMap
    /\ round = 1
    /\ proposal = None
    /\ config = DefaultVotingConfig
    /\ metrics = NewMetrics
    /\ engine = None
    /\ last = Call("new", None, None, FALSE, Ok)
    /\ outcome = Nothing

\* EthicalGuardrail::evaluate(context)
evaluate(context) ==
    /\ stats.total_evaluations < MaxEvaluations
    /\ \E result \in {evaluation(rules, context)} :
          checked' = Some([context |-> context, evaluation |-> result])
    /\ violation_log' = log_after(violation_log, rules, context)
    /\ stats' = stats_after(stats, rules, context)
    /\ UNCHANGED <<voting_vars, rules, engine_vars, last, outcome>>

NextGuardrail ==
    \/ \E r \in GuardrailPool : add_rule(r)
    \/ \E i \in 1..Len(Contexts) : evaluate(Contexts[i])

SpecGuardrail == InitGuardrail /\ [][NextGuardrail]_vars

(***************************************************************************)
(* The violation log and the statistics of an EthicalGuardrail whose rules *)
(* are added and removed between evaluations.                              *)
(***************************************************************************)
\* the contexts evaluated: the empty one, the one of high risk, the one with
\* personal data
LogContexts == {1, 2, 6}

\* the rule added: it is built with_severity(0) and is violated by every
\* context with an impact above 0.2
LogPool ==
    { GuardrailRule("allow-1", "Fairness", "Approve",
                    << Condition("impact", "gt", JNumber(Num(2, 10))) >>, 0) }

\* the ids passed to remove_rule; no rule has the last one
RemovedIds == {"transparency-1", "safety-1", "privacy-1", "allow-1", "absent-1"}

RECURSIVE retain(_, _)
\* Vec::retain(|r| r.rule_id != rule_id)
retain(rs, rule_id) ==
    IF rs = <<>> THEN <<>>
    ELSE (IF Head(rs).rule_id # rule_id THEN <<Head(rs)>> ELSE <<>>)
             \o retain(Tail(rs), rule_id)

\* EthicalGuardrail::remove_rule
remove_rule(rule_id) ==
    /\ rules' = retain(rules, rule_id)
    /\ checked' = Nothing
    /\ outcome' = Nothing
    /\ UNCHANGED <<voting_vars, violation_log, stats, engine_vars, last>>

NextLog ==
    \/ \E r \in LogPool : add_rule(r)
    \/ \E id \in RemovedIds : remove_rule(id)
    \/ \E i \in LogContexts : evaluate(Contexts[i])

SpecLog == InitGuardrail /\ [][NextLog]_vars

(***************************************************************************)
(* The three paths of combine_signals: engines with other weights and      *)
(* thresholds than the default, weighted voting, an Escalate rule, and     *)
(* recommendations on both sides of the 0.8 threshold.                     *)
(***************************************************************************)
\* make_decision is called at most MaxPathDecisions times
MaxPathDecisions == 1

\* EngineConfig { gnn_weight: 0.5, voting_weight: 0.5, min_confidence: 0.75, .. }
\* with a recommender, and the default weights and threshold over weighted
\* voting with quorum 1/2 without a recommender
PathEngines ==
    { [gnn_weight |-> Num(1, 2), voting_weight |-> Num(1, 2), min_confidence |-> Num(3, 4),
       voting_config |-> DefaultVotingConfig, gnn |-> TRUE],
      [DefaultEngine EXCEPT !.voting_config = [quorum_threshold |-> Num(1, 2), weighted |-> TRUE]] }

\* the weights passed to register_agent: -0.5 and 1.0 where weights count
PathWeights(eng) == IF eng.voting_config.weighted THEN {0 - 2, ONE} ELSE {ONE}

PathBallots ==
    { <<>>,
      <<Vote("v1", "Approve")>>,
      <<Vote("v1", "Approve"), Vote("v2", "Approve")>>,
      <<Vote("v1", "Approve"), Vote("v2", "Reject")>>,
      <<Vote("v1", "Reject"), Vote("v2", "Reject")>> }

\* what gnn.predict(..).ok() can be, with confidences above and at 0.8
PathRecommendations(eng, candidates) ==
    IF ~eng.gnn THEN {Nothing}
    ELSE IF candidates = <<>> THEN {Nothing, Some(PredictedDecision("unknown", Num(0, 1)))}
    ELSE {Nothing, Some(PredictedDecision("c2", Num(17, 20))),
          Some(PredictedDecision("c2", Num(4, 5)))}

\* a rule that escalates every intent of Normal priority
EscalateRule ==
    GuardrailRule("escalate-1", "Legality", "Escalate",
                  << Condition("impact", "eq", JNumber(Num(1, 2))) >>, 8)

InitPaths ==
    /\ engine \in PathEngines
    /\ voters = EmptyMap
    /\ votes = EmptyMap
    /\ round = 1
    /\ proposal = None
    /\ config = engine.voting_config
    /\ rules = DefaultRules
    /\ violation_log = <<>>
    /\ stats = NewStats
    /\ checked = Nothing
    /\ metrics = NewMetrics
    /\ last = Call("new", None, None, FALSE, Ok)
    /\ outcome = Nothing

NextPaths ==
    \/ \E a \in AgentIds : \E w \in PathWeights(engine) : register_agent(a, w)
    \/ add_rule(EscalateRule)
    \/ /\ metrics.total_decisions < MaxPathDecisions
       /\ \E intent \in Intents, candidates \in CandidateLists, ballots \in PathBallots :
          \E gnn_rec \in PathRecommendations(engine, candidates) :
             make_decision_of(intent, candidates, ballots, gnn_rec)

SpecPaths == InitPaths /\ [][NextPaths]_vars

(***************************************************************************)
(* Consecutive decisions on one engine: the default engine and rule set,   *)
(* every intent and ballot list, no recommender.                           *)
(***************************************************************************)
\* make_decision is called at most MaxConsecutive times in a row
MaxConsecutive == 2

InitRounds == InitEngine /\ engine = DefaultEngine

NextRounds ==
    \/ \E a \in AgentIds : register_agent(a, ONE)
    \/ /\ metrics.total_decisions < MaxConsecutive
       /\ \E intent \in Intents, ballots \in BallotLists :
             make_decision_of(intent, <<"c1", "c2">>, ballots, Nothing)

SpecRounds == InitRounds /\ [][NextRounds]_vars

(***************************************************************************)
(* Claims                                                                  *)
(***************************************************************************)
\* the total voting weight W of the registered voters: their count in
\* unweighted mode, the sum of their registered weights in weighted mode
TotalVotingWeight ==
    IF config.weighted
    THEN SumOver(DOMAIN voters, [v \in DOMAIN voters |-> voters[v].weight])
    ELSE voter_count * ONE

\* C1 (quorum law): in every reachable state tally reports consensus_reached
\* only if (approve_weight + reject_weight) / W >= quorum_threshold, the
\* quotient taken as the code takes it (x / 0 = +infinity for x > 0).
C1_QuorumLaw ==
    tally.consensus_reached =>
        FGe(Num(approve_weight(voters, votes, config) + reject_weight(voters, votes, config),
                TotalVotingWeight),
            config.quorum_threshold)

\* consensus reached with participation exactly at the threshold, not everyone voting
C1_Witness ==
    /\ tally.consensus_reached
    /\ vote_count < voter_count
    /\ participation(voters, votes, config) = config.quorum_threshold

\* C2 (majority law): when tally reaches its quorum check and quorum is met, the
\* decision is Approve iff approve_weight > reject_weight, Reject iff
\* reject_weight > approve_weight, and an exact tie gives consensus_reached =
\* false, decision = None, confidence = 0.5.
C2_MajorityLaw ==
    LET aw == approve_weight(voters, votes, config)
        rw == reject_weight(voters, votes, config)
    IN  (voter_count > 0 /\ FGe(participation(voters, votes, config), config.quorum_threshold)) =>
            /\ (tally.decision = "Approve") <=> (aw > rw)
            /\ (tally.decision = "Reject") <=> (rw > aw)
            /\ tally.consensus_reached <=> (aw # rw)
            /\ (aw = rw) =>
                  (~tally.consensus_reached /\ tally.decision = None
                      /\ tally.confidence = Num(1, 2))

\* quorum met by an exact tie of non-zero weights
C2_Witness ==
    /\ voter_count > 0
    /\ FGe(participation(voters, votes, config), config.quorum_threshold)
    /\ approve_weight(voters, votes, config) = reject_weight(voters, votes, config)
    /\ approve_weight(voters, votes, config) > 0

\* the violated rules of the last make_decision call hold one with an action in A
ViolatedWithAction(A) ==
    \E i \in 1..Len(outcome[1].guardrail_check.violations) :
        outcome[1].guardrail_check.violations[i].action \in A

\* voting_weight * voting.confidence + gnn_weight * recommender confidence (0.5
\* without a recommendation) of the last make_decision call
CombinedConfidence ==
    combined_confidence(outcome[1].voting_result, outcome[1].gnn_recommendation, engine)

\* C3: when the guardrail evaluation of a make_decision call requires Reject,
\* the Decision returned has decision_type = Reject, confidence = the
\* guardrail risk score and requires_human_approval = false, whatever the
\* ballots and the recommendation were.
C3_RejectHonoured ==
    (outcome # Nothing /\ outcome[1].guardrail_check.required_action = "Reject") =>
        /\ outcome[1].decision.decision_type = "Reject"
        /\ outcome[1].decision.confidence = outcome[1].guardrail_check.risk_score
        /\ ~outcome[1].decision.requires_human_approval

\* every registered voter approved, consensus is Approve, a recommendation was
\* given, and the guardrails required Reject
C3_Witness ==
    /\ outcome # Nothing
    /\ outcome[1].guardrail_check.required_action = "Reject"
    /\ outcome[1].voting_result.decision = "Approve"
    /\ outcome[1].voting_result.approve_votes = 2
    /\ outcome[1].gnn_recommendation # Nothing
    /\ outcome[1].decision.decision_type = "Reject"

\* C4: if at least one rule violated in a make_decision call has action Reject,
\* the Decision returned is not an Approve with requires_human_approval = false.
C4_RejectRuleNeverDropped ==
    (outcome # Nothing /\ ViolatedWithAction({"Reject"})) =>
        ~(outcome[1].decision.decision_type = "Approve"
            /\ ~outcome[1].decision.requires_human_approval)

\* C5, as claimed: the Decision returned has requires_human_approval = true
\* whenever a violated rule has action RequireApproval or Escalate, or the
\* combined confidence is below min_confidence.
C5_AsClaimed ==
    (outcome # Nothing
        /\ (\/ ViolatedWithAction({"RequireApproval", "Escalate"})
            \/ FLt(CombinedConfidence, engine.min_confidence))) =>
        outcome[1].decision.requires_human_approval

\* C5, as amended: the Decision returned has requires_human_approval = true
\* whenever the required action of the guardrail evaluation is RequireApproval
\* or Escalate, and, when the required action is none or Approve, exactly when
\* the combined confidence is below min_confidence; when the required action
\* is Reject it is false.
C5_EscalationByRequiredAction ==
    outcome # Nothing =>
        LET required == outcome[1].guardrail_check.required_action
            human == outcome[1].decision.requires_human_approval
        IN  /\ required \in {"RequireApproval", "Escalate"} => human
            /\ required \in {None, "Approve"} =>
                  (human <=> FLt(CombinedConfidence, engine.min_confidence))
            /\ required = "Reject" => ~human

\* the guardrails required approval in a call whose combined confidence was not
\* below min_confidence, and the Decision asks for human approval
C5_Witness ==
    /\ outcome # Nothing
    /\ outcome[1].guardrail_check.required_action = "RequireApproval"
    /\ ~FLt(CombinedConfidence, engine.min_confidence)
    /\ outcome[1].decision.requires_human_approval

\* C6, as claimed: cast_vote fails with the voter-not-registered error when the
\* voter is not in the registry and with the no-active-proposal error when no
\* round has been started; in every other case it returns Ok and stores the ballot.
C6_AsClaimed ==
    [][last'.op = "cast_vote" =>
        /\ (last'.voter \notin DOMAIN voters => last'.result = ErrVoterNotRegistered)
        /\ (proposal = None => last'.result = ErrNoActiveProposal)
        /\ (last'.voter \in DOMAIN voters /\ proposal # None) =>
              (last'.result = Ok /\ last'.voter \in DOMAIN votes'
                  /\ votes'[last'.voter] = last'.stored)]_vars

\* C6, as amended: the registry is checked first.  cast_vote fails with
\* Error::Internal("Voter .. not registered") when the voter is not in the
\* registry, whether or not a round has been started; with
\* Error::Internal("No active proposal") when the voter is registered and no
\* round has been started; the two errors are the same variant and differ in
\* their message; in every other case it returns Ok and stores the ballot.
C6_RegistryCheckedFirst ==
    [][last'.op = "cast_vote" =>
        /\ (last'.voter \notin DOMAIN voters => last'.result = ErrVoterNotRegistered)
        /\ (last'.voter \in DOMAIN voters /\ proposal = None) =>
              last'.result = ErrNoActiveProposal
        /\ (last'.voter \in DOMAIN voters /\ proposal # None) =>
              (last'.result = Ok /\ last'.voter \in DOMAIN votes'
                  /\ votes'[last'.voter] = last'.stored)
        /\ last'.result # Ok =>
              (last'.result.variant = "Internal"
                  /\ last'.result.message \in {"Voter not registered", "No active proposal"})]_vars

\* a ballot of an unregistered voter was refused while no round had been started
C6_Witness ==
    /\ last.op = "cast_vote"
    /\ last.result = ErrVoterNotRegistered
    /\ proposal = None

\* C7: a cast_vote call that returns an error changes neither the ballots, the
\* voter registry, the round counter nor the active proposal.
C7_FailedCastKeepsState ==
    [][(last'.op = "cast_vote" /\ last'.result # Ok) =>
          UNCHANGED <<voters, votes, round, proposal>>]_vars

\* a ballot was refused in a round that already holds ballots
C7_Witness ==
    /\ last.op = "cast_vote"
    /\ last.result = ErrVoterNotRegistered
    /\ proposal # None
    /\ vote_count > 0

\* the quotient (n - 1) / 3 the claim means: 0 for n = 0
C8_MaxFaulty(n) == IF n = 0 THEN 0 ELSE (n - 1) \div 3

\* C8: for the n voters registered, byzantine_tolerance returns, without
\* failing, total_voters = n, max_faulty_tolerated = (n - 1) / 3, honest_required
\* = n - max_faulty_tolerated and is_secure = (n >= 4), in every build.
C8_ByzantineFormula ==
    \A t \in byzantine_tolerance :
        /\ ~t.panicked
        /\ t.total_voters = ToUsize(voter_count)
        /\ t.max_faulty_tolerated = ToUsize(C8_MaxFaulty(voter_count))
        /\ t.honest_required = ToUsize(voter_count - C8_MaxFaulty(voter_count))
        /\ t.is_secure = (voter_count >= 4)

\* C9: with no registered voter tally returns the neutral result, also while
\* ballots of since-unregistered voters are still stored.
C9_NoVotersNeutral ==
    voter_count = 0 =>
        /\ ~tally.consensus_reached
        /\ tally.decision = None
        /\ tally.approve_votes = 0
        /\ tally.reject_votes = 0
        /\ tally.abstain_votes = 0
        /\ tally.total_voters = 0
        /\ tally.confidence = Num(0, 1)

\* the registry is empty and ballots of unregistered voters are stored
C9_Witness == voter_count = 0 /\ vote_count > 0

\* the number of ballots of type ty in a tally result
BallotsOf(t, ty) ==
    IF ty = "Approve" THEN t.approve_votes
    ELSE IF ty = "Reject" THEN t.reject_votes
    ELSE t.abstain_votes

\* C10: a successful cast_vote of voter v leaves v with exactly the ballot just
\* cast and every other stored ballot as it was, so vote_count grows by one
\* only when v had no ballot in the round, and tally moves v's one ballot from
\* its former type to the new one.
C10_LastBallotWins ==
    [][(last'.op = "cast_vote" /\ last'.result = Ok) =>
        \E before \in {tally}, after \in {tally_of(voters', votes', config', round')} :
            LET v == last'.voter
                had == v \in DOMAIN votes
            IN  /\ DOMAIN votes' = (DOMAIN votes) \cup {v}
                /\ votes'[v] = last'.stored
                /\ \A u \in (DOMAIN votes) \ {v} : votes'[u] = votes[u]
                /\ Cardinality(DOMAIN votes') = vote_count + (IF had THEN 0 ELSE 1)
                /\ \A ty \in VoteTypes :
                      BallotsOf(after, ty) =
                          BallotsOf(before, ty)
                              - (IF had /\ votes[v] = ty THEN 1 ELSE 0)
                              + (IF last'.stored = ty THEN 1 ELSE 0)]_vars

\* a voter changed an Approve or Reject ballot already stored: the last call
\* replaced a ballot and the round holds ballots of several voters
C10_Witness ==
    /\ last.op = "cast_vote"
    /\ last.result = Ok
    /\ last.replaced
    /\ vote_count >= 2
    /\ tally.approve_votes + tally.reject_votes + tally.abstain_votes = vote_count

\* C11: a next_round call leaves no ballot stored, so that tally reports 0
\* approve, reject and abstain votes; the round counter is one greater than
\* before; the voter registry and the active proposal are as before.
C11_NextRoundClearsBallots ==
    [][last'.op = "next_round" =>
        \E after \in {tally_of(voters', votes', config', round')} :
            /\ votes' = EmptyMap
            /\ after.approve_votes = 0
            /\ after.reject_votes = 0
            /\ after.abstain_votes = 0
            /\ after.round = round + 1
            /\ round' = round + 1
            /\ voters' = voters
            /\ proposal' = proposal]_vars

\* next_round was the last call, in a vote that was started, with voters
\* registered, and no ballot is stored
C11_Witness ==
    /\ last.op = "next_round"
    /\ proposal # None
    /\ voter_count >= 2
    /\ round = 2
    /\ vote_count = 0

\* C12: start_vote(p), at any round number, leaves no ballot stored, makes p the
\* active proposal, sets the round counter to 1 and leaves the voter registry
\* (ids and weights) as it was.
C12_StartVoteResets ==
    [][\A p \in Proposals : start_vote(p) =>
          /\ last'.op = "start_vote"
          /\ votes' = EmptyMap
          /\ proposal' = p
          /\ round' = 1
          /\ voters' = voters]_vars

\* start_vote was the last call: a proposal is active in round 1, voters are
\* registered and no ballot is stored
C12_Witness ==
    /\ last.op = "start_vote"
    /\ proposal = "p2"
    /\ round = 1
    /\ voter_count >= 2
    /\ vote_count = 0

\* the ballots a call supplies that count: of each registered voter named in
\* the list, the ballot that comes last
LastBallots(vs, ballots) ==
    [v \in {ballots[k].voter : k \in 1..Len(ballots)} \cap DOMAIN vs |->
        LET k == CHOOSE k \in 1..Len(ballots) :
                    /\ ballots[k].voter = v
                    /\ \A m \in (k + 1)..Len(ballots) : ballots[m].voter # v
        IN  ballots[k].vote_type]

\* C13: in every make_decision call, also one that follows an earlier call, the
\* voting result is the tally of the registry over the ballots supplied to
\* this call alone, and only those ballots are stored after it.
C13_RoundsIndependent ==
    [][\A intent \in Intents, ballots \in BallotLists :
          make_decision_of(intent, <<"c1", "c2">>, ballots, Nothing) =>
              /\ votes' = LastBallots(voters, ballots)
              /\ outcome'[1].voting_result =
                    tally_of(voters, LastBallots(voters, ballots), config, 1)]_vars

\* the second of two calls returned a tally without any Approve ballot, and the
\* first call was decided Approve, which takes a stored Approve ballot
C13_Witness ==
    /\ metrics.total_decisions = 2
    /\ metrics.approved_decisions = 1
    /\ outcome # Nothing
    /\ outcome[1].voting_result.approve_votes = 0
    /\ outcome[1].voting_result.reject_votes = 2

C15_TallyIsPure ==
    [][last'.op = "tally" =>
          /\ UNCHANGED <<voters, votes, round, proposal, config>>
          /\ last'.result = tally_of(voters, votes, config, round)
          /\ last'.result = tally_of(voters', votes', config', round')
          /\ (last.op = "tally" => last'.result = last.result)]_vars

\* tally was the last call and returned consensus; the ballots it counted are
\* still stored
C15_Witness ==
    /\ last.op = "tally"
    /\ last.result.consensus_reached
    /\ last.result.approve_votes + last.result.reject_votes = 2
    /\ vote_count = 2

\* C16: with at least one registered voter, tally's confidence is a defined
\* number in [0, 1]: the participation when quorum is not met, winning_weight /
\* (approve_weight + reject_weight) when consensus is reached, 0.5 on an exact
\* tie.
C16_ConfidenceInUnitRange ==
    voter_count > 0 =>
        LET aw == approve_weight(voters, votes, config)
            rw == reject_weight(voters, votes, config)
            part == Num(aw + rw, TotalVotingWeight)
            met == FGe(part, config.quorum_threshold)
        IN  /\ IsFinite(tally.confidence)
            /\ FGe(tally.confidence, Num(0, 1))
            /\ FGe(Num(1, 1), tally.confidence)
            /\ ~met => tally.confidence = part
            /\ (met /\ aw > rw) => tally.confidence = Num(aw, aw + rw)
            /\ (met /\ rw > aw) => tally.confidence = Num(rw, aw + rw)
            /\ (met /\ aw = rw) => tally.confidence = Num(1, 2)


\* the rule ids of the violations of an evaluation
ViolatedIds(ev) == {ev.violations[j].rule_id : j \in 1..Len(ev.violations)}

AllConditionsTrue(rule, context) ==
    \A k \in 1..Len(rule.conditions) : Condition_evaluate(rule.conditions[k], context)

\* C17: a rule is violated by a context exactly when it has at least one
\* condition and each of its conditions evaluates true on the context: the
\* violations of an evaluation are exactly those rules, a rule without
\* conditions is not among them, and on every context on which one condition of
\* a rule is false the rule is not violated.
C17_ViolatedIffAllConditions ==
    checked # Nothing =>
        \A i \in 1..Len(rules) :
            /\ rules[i].rule_id \in ViolatedIds(checked[1].evaluation)
                   <=> (Len(rules[i].conditions) >= 1
                        /\ AllConditionsTrue(rules[i], checked[1].context))
            /\ Len(rules[i].conditions) = 0
                   => \A j \in 1..Len(Contexts) : ~is_violated(rules[i], Contexts[j])
            /\ \A j \in 1..Len(Contexts) :
                   (\E k \in 1..Len(rules[i].conditions) :
                        ~Condition_evaluate(rules[i].conditions[k], Contexts[j]))
                       => ~is_violated(rules[i], Contexts[j])

\* an evaluation with a violated rule of two conditions, a rule without
\* conditions, and a rule of which one condition is true and the other false
C17_Witness ==
    /\ checked # Nothing
    /\ \E i, j, m \in 1..Len(rules) :
          /\ Len(rules[i].conditions) = 2
          /\ rules[i].rule_id \in ViolatedIds(checked[1].evaluation)
          /\ Len(rules[j].conditions) = 0
          /\ rules[j].rule_id \notin ViolatedIds(checked[1].evaluation)
          /\ Len(rules[m].conditions) = 2
          /\ Condition_evaluate(rules[m].conditions[1], checked[1].context)
          /\ ~Condition_evaluate(rules[m].conditions[2], checked[1].context)
          /\ rules[m].rule_id \notin ViolatedIds(checked[1].evaluation)


Operators == {"eq", "ne", "gt", "lt", "contains"}

\* the JSON type of a value, an integer and a float both being numbers
Kind(value) == IF is_numeric(value) THEN "number" ELSE value.t

\* the field of the condition is not in the context
Absent(c, context) == c.field \notin DOMAIN context

\* the field is in the context with a value of another JSON type than the
\* value the condition compares it to
Malformed(c, context) == ~Absent(c, context) /\ Kind(context[c.field]) # Kind(c.value)

\* the cases in which Condition::evaluate answers false whatever the values
FalseByConstruction(c, context) ==
    \/ Absent(c, context)
    \/ c.operator \notin Operators
    \/ /\ c.operator \in {"gt", "lt"}
       /\ ~(is_numeric(context[c.field]) /\ is_numeric(c.value))
    \/ /\ c.operator = "contains"
       /\ ~(context[c.field].t = "string" /\ c.value.t = "string")

\* C18: Condition::evaluate returns false when the field is missing, when the
\* operator is unknown, when gt or lt has a non-numeric operand and when
\* contains has a non-string operand, so that no rule is violated by a context
\* in which the field of one of its conditions is absent or of the wrong type.
C18_NeverTriggersOnMalformed ==
    checked # Nothing =>
        \A i \in 1..Len(rules) :
            /\ \A k \in 1..Len(rules[i].conditions) :
                   FalseByConstruction(rules[i].conditions[k], checked[1].context)
                       => ~Condition_evaluate(rules[i].conditions[k], checked[1].context)
            /\ rules[i].rule_id \in ViolatedIds(checked[1].evaluation)
                   => \A k \in 1..Len(rules[i].conditions) :
                          /\ ~Absent(rules[i].conditions[k], checked[1].context)
                          /\ ~Malformed(rules[i].conditions[k], checked[1].context)


\* the positions, in insertion order, of the rules that context violates
ViolatedAt(rs, context) == {i \in 1..Len(rs) : is_violated(rs[i], context)}

\* the position of the first rule among the violated rules of maximum severity
FirstOfMaxSeverity(rs, context) ==
    CHOOSE i \in ViolatedAt(rs, context) :
        /\ \A j \in ViolatedAt(rs, context) : rs[j].severity <= rs[i].severity
        /\ \A j \in ViolatedAt(rs, context) : rs[j].severity = rs[i].severity => i <= j

RequiredActionIsFirstOfMax ==
    (checked # Nothing /\ ViolatedAt(rules, checked[1].context) # {})
        => checked[1].evaluation.required_action
               = rules[FirstOfMaxSeverity(rules, checked[1].context)].action

\* PartialEq of HashMap<String, serde_json::Value>
SameContext(a, b) == DOMAIN a = DOMAIN b /\ \A f \in DOMAIN a : value_eq(a[f], b[f])

SameContextSameAction ==
    (/\ checked # Nothing
     /\ checked' # Nothing
     /\ rules' = rules
     /\ SameContext(checked'[1].context, checked[1].context))
        => checked'[1].evaluation.required_action = checked[1].evaluation.required_action

\* C19: the required_action of an evaluation is the action of the first rule,
\* in insertion order, among the violated rules of maximum severity, and
\* evaluating the same context again on the same rules gives the same
\* required_action.
C19_FirstMaxSeverityWins ==
    [](RequiredActionIsFirstOfMax) /\ [][SameContextSameAction]_vars

\* a second evaluation in which two violated rules of the maximum severity
\* carry different actions
C19_Witness ==
    /\ checked # Nothing
    /\ stats.total_evaluations = 2
    /\ \E i, j \in ViolatedAt(rules, checked[1].context) :
          /\ i < j
          /\ i = FirstOfMaxSeverity(rules, checked[1].context)
          /\ rules[j].severity = rules[i].severity
          /\ rules[j].action # rules[i].action
          /\ checked[1].evaluation.required_action = rules[i].action


\* the greatest severity among the rules that context violates
MaxViolatedSeverity(rs, context) ==
    CHOOSE m \in {rs[i].severity : i \in ViolatedAt(rs, context)} :
        \A i \in ViolatedAt(rs, context) : rs[i].severity <= m

\* C20: an evaluation passes exactly when it has no violations, and its
\* risk_score is the greatest severity among the violated rules divided by 10,
\* or 0 when no rule is violated, hence within [0, 1] when every severity is
\* within 1..10.
C20_RiskScoreIsMaxSeverity ==
    checked # Nothing =>
        /\ checked[1].evaluation.passes <=> (Len(checked[1].evaluation.violations) = 0)
        /\ Len(checked[1].evaluation.violations) = Cardinality(ViolatedAt(rules, checked[1].context))
        /\ checked[1].evaluation.risk_score
               = IF ViolatedAt(rules, checked[1].context) # {}
                 THEN Num(MaxViolatedSeverity(rules, checked[1].context), 10)
                 ELSE Num(0, 1)
        /\ (\A i \in 1..Len(rules) : rules[i].severity \in 1..10)
               => /\ FGe(checked[1].evaluation.risk_score, Num(0, 1))
                  /\ ~FGt(checked[1].evaluation.risk_score, Num(1, 1))

\* an evaluation in which the first violated rule is not the most severe one
C20_Witness ==
    /\ checked # Nothing
    /\ ~checked[1].evaluation.passes
    /\ \E i \in ViolatedAt(rules, checked[1].context) :
          /\ \A j \in ViolatedAt(rules, checked[1].context) : i <= j
          /\ rules[i].severity < MaxViolatedSeverity(rules, checked[1].context)
    /\ checked[1].evaluation.risk_score = Num(MaxViolatedSeverity(rules, checked[1].context), 10)


\* the guardrail holds the rules of with_defaults and no other
HasDefaultRules ==
    /\ Len(rules) = Len(DefaultRules)
    /\ \A i \in 1..Len(rules) : rules[i].rule_id = DefaultRules[i].rule_id

\* the context has a numeric field greater than bound
NumericAbove(context, field, bound) ==
    /\ field \in DOMAIN context
    /\ is_numeric(context[field])
    /\ FGt(context[field].v, bound)

\* the context has the field with the boolean b
HasFlag(context, field, b) ==
    field \in DOMAIN context /\ value_eq(context[field], JBool(b))

MustReject(context) ==
    NumericAbove(context, "risk_score", Num(9, 10)) \/ HasFlag(context, "contains_pii", TRUE)

MustExplain(context) ==
    NumericAbove(context, "impact", Num(8, 10)) /\ HasFlag(context, "has_explanation", FALSE)

\* C21: with the rules of with_defaults, required_action is Reject exactly
\* when risk_score is a number above 0.9 or contains_pii is true; otherwise it
\* is RequireApproval exactly when impact is above 0.8 and has_explanation is
\* false; otherwise the evaluation passes with no required_action.
C21_DefaultRulesAction ==
    (checked # Nothing /\ HasDefaultRules) =>
        /\ checked[1].evaluation.required_action = "Reject" <=> MustReject(checked[1].context)
        /\ ~MustReject(checked[1].context)
               => (checked[1].evaluation.required_action = "RequireApproval"
                       <=> MustExplain(checked[1].context))
        /\ (~MustReject(checked[1].context) /\ ~MustExplain(checked[1].context))
               => /\ checked[1].evaluation.passes
                  /\ checked[1].evaluation.required_action = None

\* the default rules have rejected a context for personal data although its
\* high impact without explanation also asks for approval
C21_Witness ==
    /\ checked # Nothing
    /\ HasDefaultRules
    /\ HasFlag(checked[1].context, "contains_pii", TRUE)
    /\ ~NumericAbove(checked[1].context, "risk_score", Num(9, 10))
    /\ MustExplain(checked[1].context)
    /\ checked[1].evaluation.required_action = "Reject"


\* values of EngineConfig.min_confidence, from 0 to 1
Thresholds == {Num(0, 1), Num(1, 2), Num(3, 4), Num(9, 10), Num(1, 1)}

\* the engine with min_confidence m and everything else as it is
WithThreshold(m) == [engine EXCEPT !.min_confidence = m]

\* requires_human_approval of the last call, had min_confidence been m
HumanUnder(m) ==
    combine_signals(outcome[1].voting_result, outcome[1].gnn_recommendation,
                    outcome[1].guardrail_check, <<>>, WithThreshold(m))[4]

\* the decision of the vote, Approve when no consensus was reached
VotingDecision ==
    IF outcome[1].voting_result.decision = None THEN "Approve"
    ELSE outcome[1].voting_result.decision

\* C22: when the guardrails require RequireApproval or Escalate, the Decision
\* asks for human approval whatever min_confidence is, its decision_type is
\* the decision of the vote (Approve without consensus) and its confidence is
\* the confidence of the vote.
C22_EscalationPath ==
    (outcome # Nothing
        /\ outcome[1].guardrail_check.required_action \in {"RequireApproval", "Escalate"}) =>
        /\ outcome[1].decision.requires_human_approval
        /\ \A m \in Thresholds : HumanUnder(m)
        /\ outcome[1].decision.decision_type = VotingDecision
        /\ outcome[1].decision.confidence = outcome[1].voting_result.confidence

\* the guardrails required Escalate after a vote without consensus whose
\* confidence is not below min_confidence
C22_Witness ==
    /\ outcome # Nothing
    /\ outcome[1].guardrail_check.required_action = "Escalate"
    /\ outcome[1].voting_result.decision = None
    /\ FGe(outcome[1].voting_result.confidence, engine.min_confidence)
    /\ outcome[1].decision.decision_type = "Approve"
    /\ outcome[1].decision.requires_human_approval


\* the guardrails of the last call required none of Reject, RequireApproval, Escalate
NoOverride ==
    outcome[1].guardrail_check.required_action \notin {"Reject", "RequireApproval", "Escalate"}

\* the confidence of the recommendation of the last call, 0.5 without one
RecommenderConfidence ==
    IF outcome[1].gnn_recommendation = Nothing THEN Num(1, 2)
    ELSE outcome[1].gnn_recommendation[1].confidence

\* C23: without an override by the guardrails the confidence of the Decision is
\* voting_weight * voting confidence + gnn_weight * recommender confidence (0.5
\* without a recommendation), and human approval is required exactly when
\* that confidence is strictly below min_confidence.
C23_WeightedConfidence ==
    (outcome # Nothing /\ NoOverride) =>
        /\ outcome[1].decision.confidence
               = FAdd(FMul(engine.voting_weight, outcome[1].voting_result.confidence),
                      FMul(engine.gnn_weight, RecommenderConfidence))
        /\ outcome[1].decision.requires_human_approval
               <=> FLt(outcome[1].decision.confidence, engine.min_confidence)
        /\ outcome[1].decision.confidence = engine.min_confidence
               => ~outcome[1].decision.requires_human_approval

\* a Decision without override whose confidence equals min_confidence, reached
\* without a recommendation, and which does not ask for human approval
C23_Witness ==
    /\ outcome # Nothing
    /\ NoOverride
    /\ outcome[1].gnn_recommendation = Nothing
    /\ outcome[1].decision.confidence = engine.min_confidence
    /\ ~outcome[1].decision.requires_human_approval


\* C24: with the registry, the rules, the ballots and the recommendation of a
\* call kept, an engine with a greater min_confidence requires human approval
\* whenever the engine with the smaller one does, on each path of
\* combine_signals; the Decision returned is the one of the engine's own
\* min_confidence.
C24_EscalationMonotone ==
    outcome # Nothing =>
        /\ outcome[1].decision.requires_human_approval = HumanUnder(engine.min_confidence)
        /\ \A m1, m2 \in Thresholds :
               (FLt(m1, m2) /\ HumanUnder(m1)) => HumanUnder(m2)

\* a call without override that asks for human approval under min_confidence
\* 0.9 and not under 0.5
C24_Witness ==
    /\ outcome # Nothing
    /\ NoOverride
    /\ ~HumanUnder(Num(1, 2))
    /\ HumanUnder(Num(9, 10))


\* voting_weight >= 0, gnn_weight >= 0 and voting_weight + gnn_weight = 1
WeightsSumToOne ==
    /\ FGe(engine.voting_weight, Num(0, 1))
    /\ FGe(engine.gnn_weight, Num(0, 1))
    /\ FAdd(engine.voting_weight, engine.gnn_weight) = Num(1, 1)

\* C25: with voting_weight and gnn_weight not negative and of sum 1, the
\* confidence of every Decision make_decision returns is a number within
\* [0, 1], on the Reject path, the escalation path and the combined path.
C25_ConfidenceInUnitRange ==
    (outcome # Nothing /\ WeightsSumToOne) =>
        /\ FGe(outcome[1].decision.confidence, Num(0, 1))
        /\ FGe(Num(1, 1), outcome[1].decision.confidence)


\* the Decision make_decision(intent, candidates, ballots) returns in the
\* current state, without a recommendation
decision_now(intent, candidates, ballots) ==
    LET voting_result ==
            tally_of(voters, cast_all(voters, intent.id, ballots_at_start(votes), ballots),
                     config, 1)
    IN  Decision(combine_signals(voting_result, Nothing,
                                 evaluation(rules, build_context(voting_result, intent)),
                                 candidates, engine))

\* a call without recommender returns a Decision on each of the inputs
AlwaysReturns ==
    ~engine.gnn =>
        \A intent \in Intents, candidates \in CandidateLists, ballots \in PathBallots :
            \E decision \in {decision_now(intent, candidates, ballots)} :
                /\ decision.decision_type \in {"Approve", "Reject"}
                /\ decision.requires_human_approval \in BOOLEAN
                /\ decision.selected_agent \in {"", "c1", "c2"}

BadBallotsIgnored ==
    (outcome' # Nothing /\ ~engine.gnn) =>
        \A intent \in Intents, candidates \in CandidateLists, ballots \in PathBallots :
            make_decision_of(intent, candidates, ballots, Nothing) =>
                /\ DOMAIN votes' \subseteq DOMAIN voters
                /\ outcome'[1].voting_result
                       = tally_of(voters, LastBallots(voters, ballots), config, 1)
                /\ outcome'[1].voting_result.approve_votes
                       + outcome'[1].voting_result.reject_votes
                       + outcome'[1].voting_result.abstain_votes
                       = Cardinality({ballots[k].voter : k \in 1..Len(ballots)} \cap DOMAIN voters)

\* C26: without a recommender make_decision returns a Decision on every input,
\* and the ballots of voters that are not registered are dropped: the voting
\* result is the tally of the ballots of the registered voters alone.
C26_AlwaysDecides ==
    [](AlwaysReturns) /\ [][BadBallotsIgnored]_vars

\* a call without recommender counted one Approve ballot for the one registered
\* voter, v2; every list supplied that names v2 names v1 before
C26_Witness ==
    /\ outcome # Nothing
    /\ ~engine.gnn
    /\ DOMAIN voters = {"v2"}
    /\ outcome[1].voting_result.total_voters = 1
    /\ outcome[1].voting_result.approve_votes = 1


\* 1 if b, else 0
Count(b) == IF b THEN 1 ELSE 0

\* each Decision counted is an Approve or a Reject, and no more Decisions are
\* escalated than were made
CountersConsistent ==
    /\ metrics.total_decisions = metrics.approved_decisions + metrics.rejected_decisions
    /\ metrics.escalated_decisions <= metrics.total_decisions
    /\ outcome # Nothing => metrics.total_decisions >= 1

\* a step that returns a Decision counts it once; every other step keeps the counters
CountersFollowDecisions ==
    IF outcome' # Nothing
    THEN /\ metrics'.total_decisions = metrics.total_decisions + 1
         /\ metrics'.approved_decisions
                = metrics.approved_decisions
                      + Count(outcome'[1].decision.decision_type = "Approve")
         /\ metrics'.rejected_decisions
                = metrics.rejected_decisions
                      + Count(outcome'[1].decision.decision_type = "Reject")
         /\ metrics'.escalated_decisions
                = metrics.escalated_decisions
                      + Count(outcome'[1].decision.requires_human_approval)
    ELSE metrics' = metrics

\* C27: the counters start at 0 and each make_decision call adds 1 to
\* total_decisions, 1 to approved_decisions or to rejected_decisions according
\* to the decision_type of the Decision it returns, and 1 to
\* escalated_decisions when that Decision requires human approval; so after k
\* calls they count the calls and the Decisions of each kind.
C27_CountersMatchDecisions ==
    [](CountersConsistent) /\ [][CountersFollowDecisions]_vars

\* after two calls: one Approve that requires human approval, one Reject that
\* does not
C27_Witness ==
    /\ metrics.total_decisions = 2
    /\ metrics.approved_decisions = 1
    /\ metrics.rejected_decisions = 1
    /\ metrics.escalated_decisions = 1
    /\ outcome # Nothing
    /\ outcome[1].decision.decision_type = "Reject"
    /\ ~outcome[1].decision.requires_human_approval


\* the log has one record for each violation counted, in all and by category
LogMatchesStats ==
    /\ Len(violation_log) = stats.violations_detected
    /\ Len(violation_log) = SumOver(DOMAIN stats.violations_by_type, stats.violations_by_type)

RECURSIVE ViolatedInOrder(_, _)
\* the ids of the rules that context violates, in insertion order
ViolatedInOrder(rs, context) ==
    IF rs = <<>> THEN <<>>
    ELSE (IF Len(Head(rs).conditions) >= 1 /\ AllConditionsTrue(Head(rs), context)
          THEN <<Head(rs).rule_id>> ELSE <<>>)
             \o ViolatedInOrder(Tail(rs), context)

\* an evaluate step appends one record for each rule its context violates, in
\* rule order, and counts one evaluation; any other step keeps log and statistics
LogFollowsEvaluations ==
    IF checked' # Nothing
    THEN \E ids \in {ViolatedInOrder(rules, checked'[1].context)} :
            /\ stats'.total_evaluations = stats.total_evaluations + 1
            /\ Len(violation_log') = Len(violation_log) + Len(ids)
            /\ SubSeq(violation_log', 1, Len(violation_log)) = violation_log
            /\ \A j \in 1..Len(ids) :
                  /\ violation_log'[Len(violation_log) + j].rule_id = ids[j]
                  /\ SameContext(violation_log'[Len(violation_log) + j].context,
                                 checked'[1].context)
    ELSE violation_log' = violation_log /\ stats' = stats

\* C28: over add_rule, remove_rule and evaluate calls the violation log holds
\* one record for each violated rule of each evaluation, in evaluation order;
\* its length is stats.violations_detected and the sum of the counters by
\* category, and total_evaluations counts the evaluate calls.
C28_LogMatchesEvaluations ==
    [](LogMatchesStats) /\ [][LogFollowsEvaluations]_vars

\* after two evaluations the log holds a record of a rule that has been removed
\* since, and two records of the last evaluation
C28_Witness ==
    /\ checked # Nothing
    /\ stats.total_evaluations = 2
    /\ Len(checked[1].evaluation.violations) = 2
    /\ Len(violation_log) >= 3
    /\ \E k \in 1..Len(violation_log) :
          \A i \in 1..Len(rules) : rules[i].rule_id # violation_log[k].rule_id


\* the id of the first candidate, the empty string when there is none
FirstOrEmpty(candidates) == IF Len(candidates) = 0 THEN "" ELSE candidates[1]

\* the agent a Decision is to select, by the path taken
ExpectedAgent(required, rec, candidates) ==
    CASE required = "Reject" -> FirstOrEmpty(candidates)
      [] required \in {"RequireApproval", "Escalate"} ->
            IF rec # Nothing THEN rec[1].agent_id ELSE FirstOrEmpty(candidates)
      [] OTHER ->
            IF rec # Nothing /\ FGt(rec[1].confidence, Num(4, 5)) THEN rec[1].agent_id
            ELSE FirstOrEmpty(candidates)

AgentByPath ==
    outcome' # Nothing =>
        \A candidates \in CandidateLists :
        \A rec \in PathRecommendations(engine, candidates) :
            outcome'[1].gnn_recommendation = rec =>
                \A intent \in Intents, ballots \in PathBallots :
                    make_decision_of(intent, candidates, ballots, rec) =>
                        outcome'[1].decision.selected_agent
                            = ExpectedAgent(outcome'[1].guardrail_check.required_action,
                                            rec, candidates)

\* C29: the selected_agent of a Decision is the first candidate on the Reject
\* path; on the RequireApproval/Escalate path the recommender's pick when there
\* is a recommendation, else the first candidate; without override the
\* recommender's pick only when its confidence is strictly above 0.8, else the
\* first candidate; and the empty string where the first candidate is called
\* for and the candidate list is empty.
C29_SelectedAgent ==
    [][AgentByPath]_vars

\* without override, a recommendation of c2 with confidence 0.8 exactly was not
\* taken: the first candidate was selected
C29_Witness ==
    /\ outcome # Nothing
    /\ NoOverride
    /\ outcome[1].gnn_recommendation = Some(PredictedDecision("c2", Num(4, 5)))
    /\ outcome[1].decision.selected_agent = "c1"


\* the context the guardrails are to see for an intent after a vote
ClaimedContext(voting_result, intent) ==
    Context({ <<"risk_score", JNumber(FSub(Num(1, 1), voting_result.confidence))>>,
              <<"has_explanation", JBool(Len(intent.action) > 0)>>,
              <<"contains_pii", JBool(FALSE)>>,
              <<"impact", JNumber(CASE intent.priority = "Critical" -> Num(1, 1)
                                    [] intent.priority = "High" -> Num(7, 10)
                                    [] intent.priority = "Normal" -> Num(1, 2)
                                    [] intent.priority = "Low" -> Num(3, 10))>> })

\* the rule is 'impact eq 1.0 => Reject'
RejectsFullImpact(rule) ==
    /\ rule.action = "Reject"
    /\ Len(rule.conditions) = 1
    /\ rule.conditions[1].field = "impact"
    /\ rule.conditions[1].operator = "eq"
    /\ value_eq(rule.conditions[1].value, JNumber(Num(1, 1)))

\* the guardrails are evaluated once, on the claimed context of the tally of the call
EvaluatedOnceOnContext(intent) ==
    /\ stats'.total_evaluations = stats.total_evaluations + 1
    /\ outcome'[1].guardrail_check
           = evaluation(rules, ClaimedContext(outcome'[1].voting_result, intent))
    /\ outcome'[1].voting_result = tally_of(voters', votes', config', 1)

\* C30: make_decision evaluates the guardrails once per call, after the tally,
\* on the context risk_score = 1 - voting confidence, has_explanation = (the
\* action of the intent is not empty), impact = 1.0, 0.7, 0.5, 0.3 by priority;
\* and with a rule 'impact eq 1.0 => Reject' among the rules the Decision for
\* an intent of Critical priority is Reject, whatever the ballots.
C30_ContextAndVeto ==
    [][outcome' # Nothing =>
        \A candidates \in CandidateLists :
        \A rec \in Recommendations(engine, candidates) :
            outcome'[1].gnn_recommendation = rec =>
                \A intent \in Intents, ballots \in BallotLists :
                    make_decision_of(intent, candidates, ballots, rec) =>
                        /\ EvaluatedOnceOnContext(intent)
                        /\ (intent.priority = "Critical"
                               /\ \E i \in 1..Len(rules) : RejectsFullImpact(rules[i]))
                              => outcome'[1].decision.decision_type = "Reject"]_vars

\* the running mean of update_metrics, lines 333-336, with k the incremented
\* total_decisions
RunningMean(old_mean, k, new_value) ==
    FDivInt(FAdd(FMul(old_mean, Num(k - 1, 1)), new_value), k)

\* C31: each make_decision call replaces average_confidence by
\* (old_mean * (k - 1) + confidence) / k with k the incremented total_decisions,
\* so that k * average_confidence grows by the confidence of the Decision
\* returned: after the first call the average is that confidence, after the
\* second the half of the sum of both, after k calls the mean of the k
\* confidences.
C31_AverageConfidenceIsMean ==
    [][metrics'.total_decisions # metrics.total_decisions =>
        \E k \in {metrics'.total_decisions}, c \in {outcome'[1].decision.confidence} :
            /\ k = metrics.total_decisions + 1
            /\ metrics'.average_confidence = RunningMean(metrics.average_confidence, k, c)
            /\ FMul(metrics'.average_confidence, Num(k, 1))
                   = FAdd(FMul(metrics.average_confidence, Num(k - 1, 1)), c)
            /\ k = 1 => metrics'.average_confidence = c
            /\ (k = 2 /\ outcome # Nothing) =>
                   metrics'.average_confidence
                       = FDivInt(FAdd(outcome[1].decision.confidence, c), 2)]_vars

\* two Decisions of different confidence have been returned
C31_Witness ==
    /\ metrics.total_decisions = 2
    /\ outcome # Nothing
    /\ metrics.average_confidence # outcome[1].decision.confidence
    /\ FLt(Num(1, 2), metrics.average_confidence)
    /\ FLt(metrics.average_confidence, Num(1, 1))

\* C32: in every reachable state each ballot tally counts belongs to a
\* registered voter, so that approve_votes + reject_votes + abstain_votes <=
\* total_voters and the participation is at most 1, also after unregister_voter
\* removed a voter whose ballot is stored.
C32_BallotsOfRegisteredVoters ==
    /\ tally.approve_votes + tally.reject_votes + tally.abstain_votes <= tally.total_voters
    /\ voter_count > 0 =>
          /\ DOMAIN votes \subseteq DOMAIN voters
          /\ ~FGt(participation(voters, votes, config), Num(1, 1))

\* C33: with the default rules and the default configuration, a make_decision
\* call whose voting confidence is below 0.1 returns Reject with confidence 1.0
\* and without human approval, the safety rule being violated by risk_score =
\* 1 - confidence > 0.9; the voting confidence is 0, hence below 0.1, when no
\* voter is registered and when no Approve or Reject ballot is counted.
C33_LowConfidenceRejected ==
    (outcome # Nothing /\ HasDefaultRules /\ engine = DefaultEngine) =>
        /\ (outcome[1].voting_result.approve_votes + outcome[1].voting_result.reject_votes = 0)
               => outcome[1].voting_result.confidence = Num(0, 1)
        /\ FLt(outcome[1].voting_result.confidence, Num(1, 10)) =>
               /\ "safety-1" \in ViolatedIds(outcome[1].guardrail_check)
               /\ outcome[1].guardrail_check.required_action = "Reject"
               /\ outcome[1].decision.decision_type = "Reject"
               /\ outcome[1].decision.confidence = Num(1, 1)
               /\ ~outcome[1].decision.requires_human_approval

\* both registered voters abstained and the call was rejected
C33_Witness ==
    /\ outcome # Nothing
    /\ outcome[1].voting_result.total_voters = 2
    /\ outcome[1].voting_result.abstain_votes = 2
    /\ outcome[1].decision.decision_type = "Reject"
    /\ outcome[1].decision.confidence = Num(1, 1)

\* C34: every context make_decision builds has contains_pii = false, so the
\* privacy rule of the default rule set is violated in no make_decision call:
\* no violation is logged or counted for it and no evaluation names it.
C34_PrivacyNeverTriggers ==
    /\ \A i \in 1..Len(violation_log) :
          /\ value_eq(violation_log[i].context["contains_pii"], JBool(FALSE))
          /\ violation_log[i].rule_id # "privacy-1"
    /\ "Privacy" \notin DOMAIN stats.violations_by_type
    /\ outcome # Nothing => "privacy-1" \notin ViolatedIds(outcome[1].guardrail_check)

\* a call under the default rules violated another rule of the default set
C34_Witness ==
    /\ HasDefaultRules
    /\ outcome # Nothing
    /\ "transparency-1" \in ViolatedIds(outcome[1].guardrail_check)
    /\ Len(violation_log) > 0

\* the stored ballots without the abstentions
WithoutAbstentions == [v \in {x \in DOMAIN votes : votes[x] # "Abstain"} |-> votes[v]]

\* every registered voter has an Abstain ballot stored, and no one else a ballot
AllAbstain ==
    /\ voter_count > 0
    /\ DOMAIN votes = DOMAIN voters
    /\ \A v \in DOMAIN votes : votes[v] = "Abstain"

\* C35: tally counts each Abstain ballot in abstain_votes and nowhere else: the
\* weights, the participation, the quorum and the outcome are those of the
\* ballots without the abstentions, and when every registered voter abstains
\* tally returns consensus_reached = false with confidence 0.
C35_AbstainAddsNothing ==
    /\ voter_count > 0 =>
          /\ tally.abstain_votes = Cardinality({v \in DOMAIN votes : votes[v] = "Abstain"})
          /\ tally.abstain_votes + tally.approve_votes + tally.reject_votes = vote_count
    /\ \E plain \in {tally_of(voters, WithoutAbstentions, config, round)} :
          /\ plain.consensus_reached = tally.consensus_reached
          /\ plain.decision = tally.decision
          /\ plain.confidence = tally.confidence
          /\ plain.approve_votes = tally.approve_votes
          /\ plain.reject_votes = tally.reject_votes
    /\ participation(voters, votes, config) = participation(voters, WithoutAbstentions, config)
    /\ AllAbstain => (~tally.consensus_reached /\ tally.confidence = Num(0, 1))

\* the stored ballots of type ty
BallotsFor(ty) == {v \in DOMAIN votes : votes[v] = ty}

\* the weight of the ballots of type ty: the sum of the registered weights of
\* their voters in weighted mode, 1 for each ballot in unweighted mode
SideWeight(ty) ==
    IF config.weighted
    THEN SumOver(BallotsFor(ty), [v \in DOMAIN voters |-> voters[v].weight])
    ELSE ONE * Cardinality(BallotsFor(ty))

\* C36: where every stored ballot is of a registered voter, tally decides by
\* the weights of the two sides: in weighted mode the sums of the registered
\* weights of the Approve and of the Reject ballots, measured against the sum
\* of all registered weights, in unweighted mode the ballot counts, whatever
\* the registered weights; approve_votes and reject_votes are ballot counts in
\* both modes.
C36_WeightedByRegisteredWeight ==
    (voter_count > 0 /\ DOMAIN votes \subseteq DOMAIN voters) =>
        \E aw \in {SideWeight("Approve")}, rw \in {SideWeight("Reject")} :
        \E quorum_met \in {FGe(Num(aw + rw, TotalVotingWeight), config.quorum_threshold)} :
            /\ tally.approve_votes = Cardinality(BallotsFor("Approve"))
            /\ tally.reject_votes = Cardinality(BallotsFor("Reject"))
            /\ tally.decision = "Approve" <=> (quorum_met /\ aw > rw)
            /\ tally.decision = "Reject" <=> (quorum_met /\ rw > aw)
            /\ tally.consensus_reached <=> (quorum_met /\ aw # rw)
            /\ tally.consensus_reached =>
                   tally.confidence = Num(IF aw > rw THEN aw ELSE rw, aw + rw)

\* weighted mode: one Approve ballot outweighs two Reject ballots
C36_Witness ==
    /\ config.weighted
    /\ DOMAIN votes \subseteq DOMAIN voters
    /\ tally.approve_votes = 1
    /\ tally.reject_votes = 2
    /\ tally.decision = "Approve"
    /\ tally.confidence = Num(2, 3)

\* unweighted mode: two ballots of registered weight 0.25 each carry two thirds
\* of the weight of three voters and reach the quorum
C36_UnweightedWitness ==
    /\ ~config.weighted
    /\ voter_count = 3
    /\ \A v \in DOMAIN voters : voters[v].weight < ONE
    /\ tally.approve_votes = 2
    /\ tally.reject_votes = 0
    /\ tally.consensus_reached

\* C37: in every reachable state of the engine approved_decisions +
\* rejected_decisions = total_decisions and escalated_decisions <=
\* total_decisions, no Decision being of type Abstain: the vote decides Approve,
\* Reject or nothing, and the Decision is a Reject or the decision of the vote,
\* Approve where there is none.
C37_CountersAddUp ==
    /\ metrics.approved_decisions + metrics.rejected_decisions = metrics.total_decisions
    /\ metrics.escalated_decisions <= metrics.total_decisions
    /\ outcome # Nothing =>
          /\ outcome[1].voting_result.decision \in {None, "Approve", "Reject"}
          /\ outcome[1].decision.decision_type \in {"Approve", "Reject"}
          /\ outcome[1].decision.decision_type # "Reject" =>
                 outcome[1].decision.decision_type = VotingDecision

\* a call with an abstention and no consensus was counted as approved
C37_Witness ==
    /\ outcome # Nothing
    /\ outcome[1].voting_result.abstain_votes = 1
    /\ outcome[1].voting_result.decision = None
    /\ outcome[1].decision.decision_type = "Approve"
    /\ metrics.total_decisions = 1
    /\ metrics.approved_decisions = 1

\* C38: the rules being built through GuardrailRule::new and with_severity,
\* each severity is within 1..10, and evaluate returns required_action = None
\* exactly when passes = true: where a rule is violated, the required action is
\* the action of one of the violated rules.
C38_ActionIffViolation ==
    /\ \A i \in 1..Len(rules) : rules[i].severity \in 1..10
    /\ checked # Nothing =>
          /\ checked[1].evaluation.required_action = None <=> checked[1].evaluation.passes
          /\ checked[1].evaluation.passes <=> ViolatedAt(rules, checked[1].context) = {}
          /\ ~checked[1].evaluation.passes =>
                 \E i \in ViolatedAt(rules, checked[1].context) :
                     checked[1].evaluation.required_action = rules[i].action

\* the one rule violated was built with severity 0, kept as 1
C38_Witness ==
    /\ checked # Nothing
    /\ ~checked[1].evaluation.passes
    /\ Len(checked[1].evaluation.violations) = 1
    /\ checked[1].evaluation.violations[1].severity = 1
    /\ checked[1].evaluation.required_action = "Approve"

\* C39: no proposal is active before the first start_vote, and every cast_vote
\* fails then; start_vote makes a proposal active, and no call clears it
\* again, so that from then on, whatever calls of next_round, register_voter,
\* unregister_voter and tally came between, cast_vote by a registered voter
\* succeeds and stores the ballot.
C39_ProposalStaysActive ==
    /\ [](last.op = "new" => proposal = None)
    /\ [][/\ proposal' # proposal => last'.op = "start_vote"
          /\ last'.op = "start_vote" => proposal' # None
          /\ proposal # None => proposal' # None
          /\ last'.op = "cast_vote" =>
                /\ proposal = None => (last'.result # Ok /\ votes' = votes)
                /\ (proposal # None /\ last'.voter \in DOMAIN voters) =>
                       /\ last'.result = Ok
                       /\ last'.voter \in DOMAIN votes']_vars

\* the one registered voter cast a ballot in the second round, after next_round
C39_Witness ==
    /\ last.op = "cast_vote"
    /\ last.result = Ok
    /\ round = 2
    /\ voter_count = 1
    /\ vote_count = 1

====
